---- MODULE Spec2Model ----
(***************************************************************************)
(* Model of the inter-process coordination layer of worklog-mcp:           *)
(*   - EventBus / EventBusPoller   (src/src/worklog_mcp/event_bus.py)      *)
(*   - JobQueue                    (src/src/worklog_mcp/job_queue.py)      *)
(*   - SessionManager   (src/src/worklog_mcp/llm_integration/              *)
(*                       session_manager.py)                               *)
(*                                                                         *)
(* Time.  datetime.now() is modelled by the variable now, counted in ticks *)
(* (the finest clock resolution).  TicksPerHour ticks make one whole unit  *)
(* of the fixed-width part of an ISO-8601 text; the remaining ticks are    *)
(* the fractional part, which isoformat() omits when it is zero.  The wall *)
(* clock never runs backwards; it moves by a tick or by a day.            *)
(*                                                                         *)
(* Stores.  Each SQLite table is a set of rows; AUTOINCREMENT is the       *)
(* counter kept in sqlite_sequence.  ORDER BY created_at walks the index   *)
(* (processed, created_at) / (status, created_at), whose entries with      *)
(* equal keys are kept in rowid order.                                     *)
(***************************************************************************)
EXTENDS Integers, Sequences, FiniteSets, TLC

\* ---------------------------------------------------------------- bounds
TicksPerHour == 2
MaxEvents == 3
MaxTicks == 2
MaxJobs == 2
MaxJobTicks == 1
MaxSessions == 2
MaxTasks == 2
MaxLockTasks == 3
MaxStopTasks == 4
MaxSessTicks == 2
MaxWorkerTicks == 2
MaxLoops == 3
MaxStopCalls == 2
MaxWorkers == 2
MaxTripTicks == 1
MaxStopTicks == 1
MaxMains == 2
MaxMessages == 3
MaxConsumers == 2
MaxDeliveries == 3

\* ------------------------------------------------------ program constants
PollLimit == 50
PollerRetentionHours == 24
DefaultRetentionHours == 24

DayTicks == 24 * TicksPerHour
StartTime == DayTicks
MaxTime == StartTime + (MaxTicks + MaxJobTicks + MaxSessTicks + MaxWorkerTicks) * DayTicks

Payloads == {1}
ConsumeLimits == {0, 1, 2, 10}
RetentionArgs == {0, 1, DefaultRetentionHours}

VARIABLES
    now,          \* the wall clock, in ticks
    lastOp,       \* the most recent step: operation, arguments, what it returned
    events,       \* table events: set of rows
    eventSeq,     \* sqlite_sequence of table events (last id handed out)
    published,    \* log of the publish calls, in call order
    markLog,      \* log of the events returned by consume calls that mark
    cleanedUp,    \* ids of the rows deleted by EventBus.cleanup
    pollRunning,  \* EventBusPoller._running
    pollPc,       \* position of the _poll_loop task
    pollBatch,    \* events of the current cycle whose dispatch task has not run
    handled,      \* ids of the events passed to the poller's callback
    jobs,         \* table jobs: set of rows
    jobSeq,       \* sqlite_sequence of table jobs
    enqueued,     \* log of the enqueue calls, in call order
    claimLog,     \* ids of the jobs dequeue returned, in call order
    sm,           \* the SessionManager, its sessions, locks and running calls
    wk,           \* the JobWorker: its loop, its current job, its calls so far
    pd,           \* the poller's dispatch tasks: running, ended, cancelled
    wl,           \* a JobWorker's loop tasks under overlapping start() and stop()
    dq,           \* dequeue calls of several workers, between SELECT and UPDATE
    vw,           \* the web viewer: notifications sent, background generations
    av,           \* the daemon's avatar_generation handler and the profile store
    cq            \* consume calls of several consumers, in their two store steps

busVars == <<events, eventSeq, published, markLog, cleanedUp>>
pollVars == <<pollRunning, pollPc, pollBatch, handled, pd>>

jobVars == <<jobs, jobSeq, enqueued, claimLog>>

ext == <<wl, dq, vw, av, cq>>
vars == <<now, lastOp, busVars, pollVars, jobVars, sm, wk, ext>>

\* A step: the operation's name, its arguments, what it returned, and (for
\* some operations) what it found in the store before it acted.
Op(name, arg, ret, pre) == <<name, arg, ret, pre>>
ActOf(o) == o[1]
ArgOf(o) == o[2]
RetOf(o) == o[3]
PreOf(o) == o[4]

\* ------------------------------------------------------------------ time
Min(a, b) == IF a < b THEN a ELSE b

\* datetime.isoformat(): fixed-width fields, then ".ffffff" only when the
\* fraction is not zero.  Characters are their ASCII codes ('0' = 48, '.' = 46).
isoformat(t) ==
    LET whole == t \div TicksPerHour
        frac == t % TicksPerHour
    IN <<48 + (whole \div 10), 48 + (whole % 10)>>
       \o (IF frac = 0 THEN <<>> ELSE <<46, 48 + frac>>)

\* SQLite's BINARY collation on TEXT: memcmp, then the shorter string first.
TextLess(a, b) ==
    \E i \in 1..(Min(Len(a), Len(b)) + 1) :
        /\ \A j \in 1..(i - 1) : a[j] = b[j]
        /\ \/ i > Len(a) /\ i <= Len(b)
           \/ i <= Len(a) /\ i <= Len(b) /\ a[i] < b[i]

\* datetime.now() - timedelta(hours=h)
Cutoff(h) == now - h * TicksPerHour

\* ------------------------------------------------------------- SQLite
\* INTEGER PRIMARY KEY AUTOINCREMENT: one more than the largest id ever used.
NextRowId(seq) == seq + 1

RowBefore_TiesNewestFirst(a, b) ==
    \/ TextLess(a.created_at, b.created_at)
    \/ a.created_at = b.created_at /\ a.id > b.id

\* Index order on created_at: TEXT comparison, equal keys in rowid order.
RowBefore(a, b) ==
    \/ TextLess(a.created_at, b.created_at)
    \/ a.created_at = b.created_at /\ a.id < b.id

RECURSIVE OrderByCreatedAt(_)
OrderByCreatedAt(rows) ==
    IF rows = {} THEN <<>>
    ELSE LET first == CHOOSE r \in rows : \A o \in rows \ {r} : RowBefore(r, o)
         IN <<first>> \o OrderByCreatedAt(rows \ {first})

\* LIMIT n
Limit(rows, n) == SubSeq(rows, 1, Min(n, Len(rows)))

Ids(rows) == [i \in 1..Len(rows) |-> rows[i].id]
Range(f) == {f[i] : i \in DOMAIN f}

\* ---------------------------------------------------------------- json
\* A Python value is tagged with its type: <<"int", n>>, <<"str", s>>,
\* <<"list", items>>, <<"dict", pairs>> with pairs the <<key, value>> items
\* in insertion order. JSON text is the sequence of its tokens: <<"{">>,
\* <<"key", k>> (the key and its colon), <<"num", n>>, <<"string", s>>,
\* <<"[">>, <<"]">>, <<"}">>; the commas are left out.
PyInt(n) == <<"int", n>>
PyStr(s) == <<"str", s>>
PyList(items) == <<"list", items>>
PyDict(pairs) == <<"dict", pairs>>

RECURSIVE DumpValue(_), DumpItems(_), DumpPairs(_)
DumpValue(v) ==
    CASE v[1] = "int" -> <<<<"num", v[2]>>>>
      [] v[1] = "str" -> <<<<"string", v[2]>>>>
      [] v[1] = "list" -> <<<<"[">>>> \o DumpItems(v[2]) \o <<<<"]">>>>
      [] v[1] = "dict" -> <<<<"{">>>> \o DumpPairs(v[2]) \o <<<<"}">>>>
DumpItems(items) ==
    IF items = <<>> THEN <<>>
    ELSE DumpValue(Head(items)) \o DumpItems(Tail(items))
DumpPairs(pairs) ==
    IF pairs = <<>> THEN <<>>
    ELSE <<<<"key", Head(pairs)[1]>>>> \o DumpValue(Head(pairs)[2])
         \o DumpPairs(Tail(pairs))

\* json.dumps(data)
JsonDumps(data) == DumpValue(data)

\* The parsers return <<value, index of the next token>>.
RECURSIVE ParseValue(_, _), ParseItems(_, _, _), ParsePairs(_, _, _)
ParseValue(text, i) ==
    CASE text[i][1] = "num" -> <<PyInt(text[i][2]), i + 1>>
      [] text[i][1] = "string" -> <<PyStr(text[i][2]), i + 1>>
      [] text[i][1] = "[" -> ParseItems(text, i + 1, <<>>)
      [] text[i][1] = "{" -> ParsePairs(text, i + 1, <<>>)
ParseItems(text, i, items) ==
    IF text[i][1] = "]" THEN <<PyList(items), i + 1>>
    ELSE LET r == ParseValue(text, i)
         IN ParseItems(text, r[2], Append(items, r[1]))
ParsePairs(text, i, pairs) ==
    IF text[i][1] = "}" THEN <<PyDict(pairs), i + 1>>
    ELSE LET r == ParseValue(text, i + 1)
         IN ParsePairs(text, r[2], Append(pairs, <<text[i][2], r[1]>>))

JsonLoads_Empty(text) == PyDict(<<>>)

\* json.loads(row["data"])
JsonLoads(text) == ParseValue(text, 1)[1]

\* The events published: a type with a payload, a map of JSON values.
Messages ==
    {<<"x", PyDict(<<<<"a", PyInt(1)>>>>)>>,
     <<"y", PyDict(<<<<"a", PyList(<<PyInt(2), PyStr("p")>>)>>,
                     <<"b", PyDict(<<<<"c", PyStr("q")>>>>)>>>>)>>}
Messages_Nested ==
    PyDict(<<<<"a", PyList(<<PyInt(2), PyStr("p")>>)>>,
             <<"b", PyDict(<<<<"c", PyStr("q")>>>>)>>>>)
EventTypes == {m[1] : m \in Messages}
DefaultMessage == <<"x", PyDict(<<<<"a", PyInt(1)>>>>)>>

\* ------------------------------------------------------------- EventBus
\* The rows the SELECT of consume matches; since is {} (None) or {t}.
SelectUnprocessed(rows, since) ==
    {e \in rows :
        /\ ~e.processed
        /\ \A t \in since : TextLess(isoformat(t), e.created_at)}

MarkProcessed_Forgotten(rows, ids, mark_processed) == rows

\* UPDATE events SET processed = 1 WHERE id IN (...), when asked to and
\* when there is something to mark.
MarkProcessed(rows, ids, mark_processed) ==
    IF mark_processed /\ ids # {}
    THEN {IF e.id \in ids THEN [e EXCEPT !.processed = TRUE] ELSE e : e \in rows}
    ELSE rows

ExpiredEvents_ProcessedOnly(rows, hours) ==
    {e \in rows : e.processed /\ TextLess(e.created_at, isoformat(Cutoff(hours)))}

\* The rows DELETE FROM events WHERE created_at < cutoff removes.
ExpiredEvents(rows, hours) ==
    {e \in rows : TextLess(e.created_at, isoformat(Cutoff(hours)))}

\* The dictionary consume builds from a row.
ConsumedEvent(row) ==
    [id |-> row.id, event_type |-> row.event_type,
     data |-> JsonLoads(row.data), created_at |-> row.created_at]

\* What one consume call returns and does to the store and the logs.
ConsumeEffect(caller, limit, mark_processed, since) ==
    LET rows == Limit(OrderByCreatedAt(SelectUnprocessed(events, since)), limit)
        result == Ids(rows)
    IN /\ events' = MarkProcessed(events, Range(result), mark_processed)
       /\ lastOp' = Op(caller, <<limit, mark_processed, since>>, result,
                       [i \in 1..Len(rows) |-> ConsumedEvent(rows[i])])
       /\ markLog' = IF mark_processed
                     THEN markLog \o [i \in 1..Len(result) |->
                                         [id |-> result[i], nosince |-> since = {}]]
                     ELSE markLog

\* INSERT INTO events (event_type, data, created_at) VALUES (?, ?, ?)
InsertEvent(event_type, data) ==
    LET id == NextRowId(eventSeq)
    IN /\ events' = events \cup {[id |-> id, event_type |-> event_type,
                                  data |-> JsonDumps(data),
                                  created_at |-> isoformat(now),
                                  processed |-> FALSE]}
       /\ eventSeq' = id
       /\ published' = Append(published, [id |-> id, at |-> now,
                              event_type |-> event_type, data |-> data])

Publish(event_type, data) ==
    /\ eventSeq < MaxEvents
    /\ InsertEvent(event_type, data)
    /\ lastOp' = Op("publish", <<event_type, data>>, NextRowId(eventSeq), <<>>)
    /\ UNCHANGED <<now, markLog, cleanedUp, pollVars, jobVars, sm, wk, ext>>

Consume(limit, mark_processed, since) ==
    /\ ConsumeEffect("consume", limit, mark_processed, since)
    /\ UNCHANGED <<now, eventSeq, published, cleanedUp, pollVars, jobVars, sm, wk, ext>>

CleanupEffect(caller, hours) ==
    LET gone == ExpiredEvents(events, hours)
    IN /\ events' = events \ gone
       /\ lastOp' = Op(caller, hours, {e.id : e \in gone}, events)
       /\ cleanedUp' = cleanedUp \cup {e.id : e \in gone}

Cleanup(hours) ==
    /\ CleanupEffect("cleanup", hours)
    /\ UNCHANGED <<now, eventSeq, published, markLog, pollVars, jobVars, sm, wk, ext>>

\* ------------------------------------------- consume by several consumers
\* consume(mark_processed=True) awaits the SELECT and then the UPDATE, so
\* the calls of two consumers of one store can interleave between the two.
\* cq.calls[c]    the rows consumer c's call has selected and not marked yet
\*                (<<>>: no call in progress)
\* cq.delivered   what the calls have returned: <<consumer, event ids>>
Consumers == 1..MaxConsumers

CqInit == [calls |-> [c \in Consumers |-> <<>>], delivered |-> <<>>]

\* cursor = await self._db.execute(SELECT ... WHERE processed = 0 ...);
\* rows = await cursor.fetchall(). With no row the call returns [] at once.
ConsumeSelectStep(c, limit) ==
    /\ cq.calls[c] = <<>>
    /\ Len(cq.delivered) < MaxDeliveries
    /\ LET rows == Limit(OrderByCreatedAt(SelectUnprocessed(events, {})), limit)
       IN /\ rows # <<>>
          /\ cq' = [cq EXCEPT !.calls[c] = Ids(rows)]
          /\ lastOp' = Op("consume.select", c, Ids(rows), <<>>)
    /\ UNCHANGED <<now, busVars, pollVars, jobVars, sm, wk, wl, dq, vw, av>>

ConsumeReturn_StillUnprocessed(rows, ids) ==
    SelectSeq(ids, LAMBDA id : \E e \in rows : e.id = id /\ ~e.processed)

\* The events a call returns: the rows it selected, whatever has become of
\* their processed flag since.
ConsumeReturn(rows, ids) == ids

\* await self._db.execute(UPDATE events SET processed = 1 WHERE id IN
\* (...)); commit; return events
ConsumeMarkStep(c) ==
    /\ cq.calls[c] # <<>>
    /\ LET ids == cq.calls[c]
           ret == ConsumeReturn(events, ids)
       IN /\ events' = MarkProcessed(events, Range(ids), TRUE)
          /\ markLog' = markLog \o [i \in 1..Len(ret) |->
                                       [id |-> ret[i], nosince |-> TRUE]]
          /\ cq' = [cq EXCEPT !.calls[c] = <<>>,
                              !.delivered = Append(cq.delivered, <<c, ret>>)]
          /\ lastOp' = Op("consume.mark", c, ret, ids)
    /\ UNCHANGED <<now, eventSeq, published, cleanedUp, pollVars, jobVars, sm,
                   wk, wl, dq, vw, av>>

\* ------------------------------------------------------- EventBusPoller
\* pd.batch      ids of the events the current cycle's consume returned
\* pd.running    ids whose dispatch task has called the callback, which has
\*               not ended yet
\* pd.done       ids whose callback has returned
\* pd.raised     ids whose callback has raised
\* pd.cancelled  ids whose dispatch task was cancelled
PdInit == [batch |-> {}, running |-> {}, done |-> {}, raised |-> {},
           cancelled |-> {}]

\* start(callback): returns at once when already running.
PollStart ==
    /\ ~pollRunning
    /\ pollRunning' = TRUE
    /\ pollPc' = "consume"
    /\ pollBatch' = {}
    /\ lastOp' = Op("poller.start", <<>>, <<>>, <<>>)
    /\ UNCHANGED <<now, busVars, handled, pd, jobVars, sm, wk, ext>>

\* Cancelling the gather cancels the dispatch tasks that have not ended:
\* those that never ran and those suspended in the callback.
CancelDispatches(P, ids) ==
    [P EXCEPT !.running = {}, !.cancelled = P.cancelled \cup ids]

\* stop(): clears the flag and cancels the loop task wherever it is waiting;
\* the cancellation reaches the gathered dispatch tasks that have not ended.
PollStop ==
    /\ pollRunning
    /\ pollRunning' = FALSE
    /\ pollPc' = "none"
    /\ pollBatch' = {}
    /\ pd' = CancelDispatches(pd, pollBatch \cup pd.running)
    /\ lastOp' = Op("poller.stop", <<>>, <<>>, <<>>)
    /\ UNCHANGED <<now, busVars, handled, jobVars, sm, wk, ext>>

\* events = await self.event_bus.consume(limit=50); one task per event.
PollConsume ==
    /\ pollRunning /\ pollPc = "consume"
    /\ ConsumeEffect("poller.consume", PollLimit, TRUE, {})
    /\ pollBatch' = Range(RetOf(lastOp'))
    /\ pd' = [pd EXCEPT !.batch = Range(RetOf(lastOp'))]
    /\ pollPc' = "dispatch"
    /\ UNCHANGED <<now, eventSeq, published, cleanedUp, pollRunning, handled, jobVars, sm, wk, ext>>

\* _process_event: a dispatch task runs and calls the callback, which runs
\* up to its first await.
PollDispatch(id) ==
    /\ pollRunning /\ pollPc = "dispatch"
    /\ id \in pollBatch
    /\ handled' = handled \cup {id}
    /\ pollBatch' = pollBatch \ {id}
    /\ pd' = [pd EXCEPT !.running = pd.running \cup {id}]
    /\ lastOp' = Op("poller.dispatch", id, <<>>, <<>>)
    /\ UNCHANGED <<now, busVars, pollRunning, pollPc, jobVars, sm, wk, ext>>

\* The callback has returned: the dispatch task ends.
PollCallbackReturns(id) ==
    /\ id \in pd.running
    /\ pd' = [pd EXCEPT !.running = pd.running \ {id},
                        !.done = pd.done \cup {id}]
    /\ lastOp' = Op("poller.callback_returned", id, <<>>, <<>>)
    /\ UNCHANGED <<now, busVars, pollRunning, pollPc, pollBatch, handled, jobVars, sm, wk, ext>>

CallbackRaised_FailsGather(P, id) ==
    [P EXCEPT !.running = {}, !.raised = P.raised \cup {id},
              !.cancelled = P.cancelled \cup (P.running \ {id})]

\* _process_event's except Exception: the error is logged and the dispatch
\* task ends normally; the gather collects it like any other.
CallbackRaised(P, id) ==
    [P EXCEPT !.running = P.running \ {id}, !.raised = P.raised \cup {id}]

\* The callback has raised.
PollCallbackRaises(id) ==
    /\ id \in pd.running
    /\ pd' = CallbackRaised(pd, id)
    /\ lastOp' = Op("poller.callback_raised", id, <<>>, <<>>)
    /\ UNCHANGED <<now, busVars, pollRunning, pollPc, pollBatch, handled, jobVars, sm, wk, ext>>

\* The gather has finished (or there was nothing to dispatch).
PollGathered ==
    /\ pollRunning /\ pollPc = "dispatch"
    /\ pollBatch = {} /\ pd.running = {}
    /\ pollPc' = "cleanup"
    /\ lastOp' = Op("poller.gathered", <<>>, <<>>, <<>>)
    /\ UNCHANGED <<now, busVars, pollRunning, pollBatch, handled, pd, jobVars, sm, wk, ext>>

\* asyncio.wait_for(gather, timeout=30.0) times out while callbacks are
\* still running: wait_for cancels the gather, waits for the cancellation
\* and raises TimeoutError, which the loop logs.
PollTimeout ==
    /\ pollRunning /\ pollPc = "dispatch"
    /\ pollBatch = {} /\ pd.running # {}
    /\ pd' = CancelDispatches(pd, pd.running)
    /\ pollPc' = "cleanup"
    /\ lastOp' = Op("poller.timeout", <<>>, <<>>, <<>>)
    /\ UNCHANGED <<now, busVars, pollRunning, pollBatch, handled, jobVars, sm, wk, ext>>

\* if loop.time() % 3600 < poll_interval: cleanup(older_than_hours=24).
\* The loop's monotonic time is not part of the state: either branch.
PollCleanup ==
    /\ pollRunning /\ pollPc = "cleanup"
    /\ CleanupEffect("poller.cleanup", PollerRetentionHours)
    /\ pollPc' = "sleep"
    /\ UNCHANGED <<now, eventSeq, published, markLog, pollRunning,
                   pollBatch, handled, pd, jobVars, sm, wk, ext>>

PollSkipCleanup ==
    /\ pollRunning /\ pollPc = "cleanup"
    /\ pollPc' = "sleep"
    /\ lastOp' = Op("poller.nocleanup", <<>>, <<>>, <<>>)
    /\ UNCHANGED <<now, busVars, pollRunning, pollBatch, handled, pd, jobVars, sm, wk, ext>>

\* await asyncio.sleep(self.poll_interval)
PollSleep ==
    /\ pollRunning /\ pollPc = "sleep"
    /\ pollPc' = "consume"
    /\ lastOp' = Op("poller.sleep", <<>>, <<>>, <<>>)
    /\ UNCHANGED <<now, busVars, pollRunning, pollBatch, handled, pd, jobVars, sm, wk, ext>>

\* ------------------------------------------------------------ web viewer
\* run_web_server starts an Event Poller with handle_event as its callback.
\* vw.notified     the notify_clients calls made: <<event type, event id>>
\* vw.generating   ids of the user_registered events whose background task
\*                 generate_ai_avatar_for_user is running in the viewer
VwInit == [notified |-> <<>>, generating |-> {}]

\* The events the tools publish: user_registered with the user's data, and
\* the others.
ViewerMessages ==
    {<<"user_registered", PyDict(<<<<"user_id", PyStr("u1")>>>>)>>,
     <<"entry_created", PyDict(<<<<"user_id", PyStr("u1")>>>>)>>}

EventRow(id) == CHOOSE e \in events : e.id = id

\* handle_event(event_type, data), the callback of a dispatch task. For
\* user_registered handle_user_registered creates the background task
\* generate_ai_avatar_for_user; then, for every type, notify_clients puts
\* the event on the connected viewers' queues. Neither awaits anything, so
\* the callback returns in the step it was called in.
ViewerHandleEvent(id) ==
    /\ id \in pd.running
    /\ \E e \in events : e.id = id
    /\ LET event_type == EventRow(id).event_type
       IN /\ vw' = [vw EXCEPT
                      !.generating = IF event_type = "user_registered"
                                     THEN vw.generating \cup {id}
                                     ELSE vw.generating,
                      !.notified = Append(vw.notified, <<event_type, id>>)]
          /\ lastOp' = Op("viewer.handle_event", id, event_type, <<>>)
    /\ pd' = [pd EXCEPT !.running = pd.running \ {id},
                        !.done = pd.done \cup {id}]
    /\ UNCHANGED <<now, busVars, pollRunning, pollPc, pollBatch, handled,
                   jobVars, sm, wk, wl, dq, av, cq>>

\* generate_ai_avatar_for_user has ended: when an image was produced the
\* profile store is updated and avatar_updated is notified to the viewers.
ViewerGenerationEnds(id, produced) ==
    /\ id \in vw.generating
    /\ vw' = [vw EXCEPT
                !.generating = vw.generating \ {id},
                !.notified = IF produced
                             THEN Append(vw.notified, <<"avatar_updated", id>>)
                             ELSE vw.notified]
    /\ lastOp' = Op("viewer.generated", id, produced, <<>>)
    /\ UNCHANGED <<now, busVars, pollVars, jobVars, sm, wk, wl, dq, av, cq>>

\* ------------------------------------------------------------- JobQueue
\* SQL NULL; TEXT values are sequences of character codes.
Null == <<>>

JobTypes == {"avatar_generation", "other"}
ErrorMessages == {<<101>>}
Results == {{}, {2}}
Terminal == {"completed", "failed"}

DequeueSelect_Newest(rows, job_type) ==
    LET match == {j \in rows : j.status = "pending"
                               /\ \A t \in job_type : j.job_type = t}
    IN IF match = {} THEN {}
       ELSE {OrderByCreatedAt(match)[Cardinality(match)]}

\* SELECT ... WHERE status = 'pending' [AND job_type = ?]
\* ORDER BY created_at ASC LIMIT 1; job_type is {} (None) or {t}.
DequeueSelect(rows, job_type) ==
    LET match == {j \in rows : j.status = "pending"
                               /\ \A t \in job_type : j.job_type = t}
    IN IF match = {} THEN {} ELSE {OrderByCreatedAt(match)[1]}

MarkProcessing_StampOnly(rows, id) ==
    {IF j.id = id THEN [j EXCEPT !.started_at = isoformat(now)] ELSE j : j \in rows}

\* UPDATE jobs SET status = 'processing', started_at = now WHERE id = ?
MarkProcessing(rows, id) ==
    {IF j.id = id
     THEN [j EXCEPT !.status = "processing", !.started_at = isoformat(now)]
     ELSE j : j \in rows}

MarkCompleted_StampOnly(rows, id) ==
    {IF j.id = id THEN [j EXCEPT !.completed_at = isoformat(now)] ELSE j : j \in rows}

\* UPDATE jobs SET status = 'completed', completed_at = now WHERE id = ?
MarkCompleted(rows, id) ==
    {IF j.id = id
     THEN [j EXCEPT !.status = "completed", !.completed_at = isoformat(now)]
     ELSE j : j \in rows}

\* UPDATE jobs SET status = 'failed', completed_at = now, error_message = ?
\* WHERE id = ?
MarkFailed(rows, id, error_message) ==
    {IF j.id = id
     THEN [j EXCEPT !.status = "failed", !.completed_at = isoformat(now),
                    !.error_message = error_message]
     ELSE j : j \in rows}

ExpiredJobs_ByCreation(rows, hours) ==
    {j \in rows : TextLess(j.created_at, isoformat(Cutoff(hours)))}

\* The rows DELETE FROM jobs WHERE status IN ('completed', 'failed')
\* AND completed_at < cutoff removes; a comparison with NULL is not true.
ExpiredJobs(rows, hours) ==
    {j \in rows : /\ j.status \in Terminal
                  /\ j.completed_at # Null
                  /\ TextLess(j.completed_at, isoformat(Cutoff(hours)))}

Enqueue(job_type, payload) ==
    /\ jobSeq < MaxJobs
    /\ LET id == NextRowId(jobSeq)
       IN /\ jobs' = jobs \cup {[id |-> id, job_type |-> job_type,
                                 payload |-> payload, status |-> "pending",
                                 created_at |-> isoformat(now),
                                 started_at |-> Null, completed_at |-> Null,
                                 error_message |-> Null, retry_count |-> 0]}
          /\ jobSeq' = id
          /\ enqueued' = Append(enqueued, [id |-> id, at |-> now,
                                           job_type |-> job_type])
          /\ lastOp' = Op("enqueue", <<job_type, payload>>, id, <<>>)
    /\ UNCHANGED <<now, claimLog, busVars, pollVars, sm, wk, ext>>

\* Returns the claimed job ({} for None).
Dequeue(job_type) ==
    LET row == DequeueSelect(jobs, job_type)
    IN /\ jobs' = IF row = {} THEN jobs
                  ELSE MarkProcessing(jobs, (CHOOSE j \in row : TRUE).id)
       /\ claimLog' = IF row = {} THEN claimLog
                      ELSE Append(claimLog, (CHOOSE j \in row : TRUE).id)
       /\ lastOp' = Op("dequeue", job_type, {j.id : j \in row}, <<>>)
       /\ UNCHANGED <<now, jobSeq, enqueued, busVars, pollVars, sm, wk, ext>>

\* result is {} (None) or {r}; the statement does not write the payload.
CompleteJob(job_id, result) ==
    /\ jobs' = MarkCompleted(jobs, job_id)
    /\ lastOp' = Op("complete_job", <<job_id, result>>, <<>>, <<>>)
    /\ UNCHANGED <<now, jobSeq, enqueued, claimLog, busVars, pollVars, sm, wk, ext>>

FailJob(job_id, error_message) ==
    /\ jobs' = MarkFailed(jobs, job_id, error_message)
    /\ lastOp' = Op("fail_job", <<job_id, error_message>>, <<>>, <<>>)
    /\ UNCHANGED <<now, jobSeq, enqueued, claimLog, busVars, pollVars, sm, wk, ext>>

JobCleanup(hours) ==
    LET gone == ExpiredJobs(jobs, hours)
    IN /\ jobs' = jobs \ gone
       /\ lastOp' = Op("job_cleanup", hours, Cardinality(gone), <<>>)
       /\ UNCHANGED <<now, jobSeq, enqueued, claimLog, busVars, pollVars, sm, wk, ext>>

\* ------------------------------------------------------------ JobWorker
\* wk.running    _running
\* wk.pc         where the loop task is suspended ("none": no loop task)
\* wk.job        id of the job _process_job works on (0: none)
\* wk.job_type   its job_type
\* wk.result     the handler's return value, once it has returned
\* wk.msg        the text of the pending fail_job call
\* wk.inExcept   the pending fail_job call is the one of the except block
\* wk.handlers   the job types with a registered handler
\* wk.log        the handler invocations and the complete_job / fail_job
\*               calls the worker has made, and how the handler ended:
\*               <<what, job id, succeeded, argument or value>>
\* Texts are sequences of character codes; TypeText gives a job type's.
TypeText(job_type) == IF job_type = "avatar_generation" THEN <<97>> ELSE <<111>>
StoreErrorText == <<115>>
HandlerErrors == {<<101>>}

\* f"ハンドラーが見つかりません: {job_type}"
NoHandlerText(job_type) == <<72>> \o TypeText(job_type)
\* f"ジョブ処理エラー: {str(e)}"
JobErrorText(e) == <<74>> \o e

WkInit ==
    [running |-> FALSE, pc |-> "none", job |-> 0, job_type |-> "",
     result |-> {}, msg |-> <<>>, inExcept |-> FALSE,
     handlers |-> {"avatar_generation"}, log |-> <<>>]

NoJob(W) == [W EXCEPT !.job = 0, !.job_type = "", !.result = {},
                      !.msg = <<>>, !.inExcept = FALSE]

HasHandler_Any(W, job_type) == TRUE

\* handler = self._handlers.get(job_type)
HasHandler(W, job_type) == job_type \in W.handlers

\* JobWorker.start
WorkerStart ==
    /\ wk' = IF wk.running THEN wk
             ELSE [wk EXCEPT !.running = TRUE, !.pc = "dequeue"]
    /\ lastOp' = Op("worker.start", <<>>, wk.running, <<>>)
    /\ UNCHANGED <<now, busVars, pollVars, jobVars, sm, ext>>

\* JobWorker.stop: the loop task is cancelled wherever it is suspended; what
\* it was doing for its current job is abandoned.
WorkerStop ==
    /\ wk' = [NoJob(wk) EXCEPT !.running = FALSE, !.pc = "none"]
    /\ lastOp' = Op("worker.stop", <<>>, wk.pc, <<>>)
    /\ UNCHANGED <<now, busVars, pollVars, jobVars, sm, ext>>

\* job = await self.job_queue.dequeue(), and _process_job up to its first
\* await: the handler call, or fail_job when the type has no handler.
WorkerDequeue(ok) ==
    /\ wk.pc = "dequeue"
    /\ IF ~ok
       THEN /\ wk' = [wk EXCEPT !.pc = "error_sleep"]
            /\ lastOp' = Op("worker.dequeue_error", <<>>, StoreErrorText, <<>>)
            /\ UNCHANGED <<jobs, claimLog>>
       ELSE LET row == DequeueSelect(jobs, {})
            IN IF row = {}
               THEN /\ wk' = [wk EXCEPT !.pc = "sleep"]
                    /\ lastOp' = Op("worker.dequeue", <<>>, {}, <<>>)
                    /\ UNCHANGED <<jobs, claimLog>>
               ELSE LET j == CHOOSE x \in row : TRUE
                    IN /\ jobs' = MarkProcessing(jobs, j.id)
                       /\ claimLog' = Append(claimLog, j.id)
                       /\ lastOp' = Op("worker.dequeue", <<>>, {j.id}, <<>>)
                       /\ wk' = IF HasHandler(wk, j.job_type)
                                THEN [wk EXCEPT !.pc = "handler", !.job = j.id,
                                        !.job_type = j.job_type,
                                        !.log = Append(wk.log,
                                            <<"handler", j.id, TRUE, j.payload>>)]
                                ELSE [wk EXCEPT !.pc = "fail_job", !.job = j.id,
                                        !.job_type = j.job_type,
                                        !.msg = NoHandlerText(j.job_type)]
    /\ UNCHANGED <<now, jobSeq, enqueued, busVars, pollVars, sm, ext>>

\* result = await handler(payload) has returned: complete_job is called.
WorkerHandlerReturns(result) ==
    /\ wk.pc = "handler"
    /\ wk' = [wk EXCEPT !.pc = "complete_job", !.result = result,
                        !.log = Append(wk.log, <<"returned", wk.job, TRUE, result>>)]
    /\ lastOp' = Op("worker.handler", wk.job, <<"returned", result>>, <<>>)
    /\ UNCHANGED <<now, busVars, pollVars, jobVars, sm, ext>>

\* await handler(payload) has raised: the except block calls fail_job.
WorkerHandlerRaises(e) ==
    /\ wk.pc = "handler"
    /\ wk' = [wk EXCEPT !.pc = "fail_job", !.msg = JobErrorText(e),
                        !.inExcept = TRUE,
                        !.log = Append(wk.log, <<"raised", wk.job, TRUE, e>>)]
    /\ lastOp' = Op("worker.handler", wk.job, <<"raised", e>>, <<>>)
    /\ UNCHANGED <<now, busVars, pollVars, jobVars, sm, ext>>

\* await self.job_queue.complete_job(job_id, result); a store error is
\* caught by the except block, which calls fail_job.
WorkerCompleteJob(ok) ==
    /\ wk.pc = "complete_job"
    /\ jobs' = IF ok THEN MarkCompleted(jobs, wk.job) ELSE jobs
    /\ wk' = IF ok
             THEN [NoJob(wk) EXCEPT !.pc = "cleanup_check",
                      !.log = Append(wk.log,
                          <<"complete_job", wk.job, TRUE, wk.result>>)]
             ELSE [wk EXCEPT !.pc = "fail_job",
                      !.msg = JobErrorText(StoreErrorText), !.inExcept = TRUE,
                      !.log = Append(wk.log,
                          <<"complete_job", wk.job, FALSE, wk.result>>)]
    /\ lastOp' = Op("worker.complete_job", wk.job, ok, <<>>)
    /\ UNCHANGED <<now, jobSeq, enqueued, claimLog, busVars, pollVars, sm, ext>>

\* await self.job_queue.fail_job(job_id, text). A store error in the call of
\* the missing-handler branch is caught by the except block, which calls
\* fail_job again; a store error in the except block's call ends
\* _process_job and is caught by the loop.
WorkerFailJob(ok) ==
    /\ wk.pc = "fail_job"
    /\ jobs' = IF ok THEN MarkFailed(jobs, wk.job, wk.msg) ELSE jobs
    /\ LET W == [wk EXCEPT !.log = Append(wk.log,
                                      <<"fail_job", wk.job, ok, wk.msg>>)]
       IN wk' = IF ok THEN [NoJob(W) EXCEPT !.pc = "cleanup_check"]
                ELSE IF wk.inExcept THEN [NoJob(W) EXCEPT !.pc = "error_sleep"]
                ELSE [W EXCEPT !.msg = JobErrorText(StoreErrorText),
                               !.inExcept = TRUE]
    /\ lastOp' = Op("worker.fail_job", wk.job, ok, <<>>)
    /\ UNCHANGED <<now, jobSeq, enqueued, claimLog, busVars, pollVars, sm, ext>>

\* await asyncio.sleep(self.poll_interval) after an empty dequeue
WorkerSleep ==
    /\ wk.pc = "sleep"
    /\ wk' = [wk EXCEPT !.pc = "cleanup_check"]
    /\ lastOp' = Op("worker.sleep", <<>>, <<>>, <<>>)
    /\ UNCHANGED <<now, busVars, pollVars, jobVars, sm, ext>>

\* loop time % 3600 < poll_interval: cleanup(older_than_hours=24)
WorkerCleanup(ok) ==
    /\ wk.pc = "cleanup_check"
    /\ LET gone == IF ok THEN ExpiredJobs(jobs, DefaultRetentionHours) ELSE {}
       IN /\ jobs' = jobs \ gone
          /\ lastOp' = Op("worker.cleanup", ok, Cardinality(gone), <<>>)
    /\ wk' = [wk EXCEPT !.pc = IF ok THEN "dequeue" ELSE "error_sleep"]
    /\ UNCHANGED <<now, jobSeq, enqueued, claimLog, busVars, pollVars, sm, ext>>

\* loop time % 3600 >= poll_interval: next round
WorkerSkipCleanup ==
    /\ wk.pc = "cleanup_check"
    /\ wk' = [wk EXCEPT !.pc = "dequeue"]
    /\ lastOp' = Op("worker.skip_cleanup", <<>>, <<>>, <<>>)
    /\ UNCHANGED <<now, busVars, pollVars, jobVars, sm, ext>>

AfterLoopError_Ends(W) == [W EXCEPT !.pc = "none"]

\* except Exception in the loop: the error is logged and, after the sleep,
\* the while loop goes round.
AfterLoopError(W) == [W EXCEPT !.pc = "dequeue"]

\* await asyncio.sleep(self.poll_interval) in the loop's except block
WorkerErrorSleep ==
    /\ wk.pc = "error_sleep"
    /\ wk' = AfterLoopError(wk)
    /\ lastOp' = Op("worker.error_sleep", <<>>, <<>>, <<>>)
    /\ UNCHANGED <<now, busVars, pollVars, jobVars, sm, ext>>

\* ------------------------------------------ dequeue, concurrent callers
\* Several workers call dequeue on one job store. A call is suspended
\* between its SELECT and its UPDATE, and other calls run meanwhile.
\* dq.calls[w]    the id of the row worker w's call has selected and not
\*                marked yet (0: w is not inside such a call)
\* dq.returned    the jobs the calls have returned: <<worker, job id>>
Workers == 1..MaxWorkers

\* dq.pc[w]       where worker w's loop task is suspended ("none": no task)
\* dq.job[w]      the job worker w selected or holds (0: none)
\* dq.abandoned   ids of the jobs whose handler was cancelled by stop()
DqInit ==
    [calls |-> [w \in Workers |-> 0], returned |-> <<>>,
     pc |-> [w \in Workers |-> "none"], job |-> [w \in Workers |-> 0],
     abandoned |-> {}]

\* cursor = await self._db.execute(SELECT ...); row = await cursor.fetchone();
\* if not row: return None
DequeueSelectStep(w) ==
    /\ dq.calls[w] = 0
    /\ LET row == DequeueSelect(jobs, {})
           id == IF row = {} THEN 0 ELSE (CHOOSE x \in row : TRUE).id
       IN /\ dq' = [dq EXCEPT !.calls[w] = id]
          /\ lastOp' = Op("dequeue.select", w, id, <<>>)
    /\ UNCHANGED <<now, busVars, pollVars, jobVars, sm, wk, wl, vw, av, cq>>

DequeueReturn_IfStillPending(rows, id) ==
    IF \E j \in rows : j.id = id /\ j.status = "pending" THEN id ELSE 0

\* What dequeue returns after its UPDATE: the row it selected. The UPDATE
\* has no status condition and its row count is not looked at.
DequeueReturn(rows, id) == id

\* await self._db.execute(UPDATE ... WHERE id = ?); commit; return the job
DequeueMarkStep(w) ==
    /\ dq.calls[w] # 0
    /\ LET id == dq.calls[w]
           ret == DequeueReturn(jobs, id)
       IN /\ jobs' = MarkProcessing(jobs, id)
          /\ claimLog' = IF ret = 0 THEN claimLog ELSE Append(claimLog, ret)
          /\ dq' = [dq EXCEPT !.calls[w] = 0,
                              !.returned = IF ret = 0 THEN dq.returned
                                           ELSE Append(dq.returned, <<w, ret>>)]
          /\ lastOp' = Op("dequeue.mark", w, ret, id)
    /\ UNCHANGED <<now, jobSeq, enqueued, busVars, pollVars, sm, wk, wl, vw, av, cq>>

\* ------------------------------------------- JobWorkers sharing a store
\* Several JobWorker objects (one per daemon process) on one jobs table.
\* JobWorker.start of worker w.
PeerStart(w) ==
    /\ dq.pc[w] = "none"
    /\ dq' = [dq EXCEPT !.pc[w] = "dequeue"]
    /\ lastOp' = Op("peer.start", <<>>, <<>>, <<>>)
    /\ UNCHANGED <<now, busVars, pollVars, jobVars, sm, wk, wl, vw, av, cq>>

\* _work_loop: dequeue's SELECT; without a row the loop sleeps and polls
\* again.
PeerSelect(w) ==
    /\ dq.pc[w] = "dequeue"
    /\ LET row == DequeueSelect(jobs, {})
           id == IF row = {} THEN 0 ELSE (CHOOSE x \in row : TRUE).id
       IN /\ dq' = IF id = 0 THEN dq
                   ELSE [dq EXCEPT !.pc[w] = "mark", !.job[w] = id]
          /\ lastOp' = Op("peer.select", <<>>, <<>>, <<>>)
    /\ UNCHANGED <<now, busVars, pollVars, jobVars, sm, wk, wl, vw, av, cq>>

\* dequeue's UPDATE and return, then _process_job up to its first await:
\* the handler is called, or fail_job when the type has none.
PeerMark(w) ==
    /\ dq.pc[w] = "mark"
    /\ LET id == DequeueReturn(jobs, dq.job[w])
           row == {j \in jobs : j.id = id}
           typed == \E j \in row : HasHandler(wk, j.job_type)
       IN /\ jobs' = MarkProcessing(jobs, id)
          /\ claimLog' = Append(claimLog, id)
          /\ dq' = [dq EXCEPT !.pc[w] = IF typed THEN "handler" ELSE "fail_job",
                              !.returned = Append(dq.returned, <<w, id>>)]
          /\ lastOp' = Op("peer.mark", <<>>, <<>>, <<>>)
    /\ UNCHANGED <<now, jobSeq, enqueued, busVars, pollVars, sm, wk, wl, vw, av, cq>>

\* The handler returns (complete_job is called) or raises an Exception
\* (fail_job is called).
PeerHandlerEnds(w, returns) ==
    /\ dq.pc[w] = "handler"
    /\ dq' = [dq EXCEPT !.pc[w] = IF returns THEN "complete_job" ELSE "fail_job"]
    /\ lastOp' = Op("peer.handler", <<>>, <<>>, <<>>)
    /\ UNCHANGED <<now, busVars, pollVars, jobVars, sm, wk, wl, vw, av, cq>>

\* complete_job or fail_job returns; the loop goes on to its next dequeue.
PeerRecord(w) ==
    /\ dq.pc[w] \in {"complete_job", "fail_job"}
    /\ jobs' = IF dq.pc[w] = "complete_job"
               THEN MarkCompleted(jobs, dq.job[w])
               ELSE MarkFailed(jobs, dq.job[w], JobErrorText(<<101>>))
    /\ dq' = [dq EXCEPT !.pc[w] = "dequeue", !.job[w] = 0]
    /\ lastOp' = Op("peer.record", <<>>, <<>>, <<>>)
    /\ UNCHANGED <<now, jobSeq, enqueued, claimLog, busVars, pollVars, sm, wk, wl, vw, av, cq>>

\* JobWorker.stop of worker w: the loop task is cancelled at the await it
\* is suspended in. A cancelled complete_job or fail_job may or may not
\* have written its row.
PeerStop(w, written) ==
    /\ dq.pc[w] # "none"
    /\ jobs' = IF ~written THEN jobs
               ELSE IF dq.pc[w] = "complete_job"
                    THEN MarkCompleted(jobs, dq.job[w])
               ELSE IF dq.pc[w] = "fail_job"
                    THEN MarkFailed(jobs, dq.job[w], JobErrorText(<<101>>))
               ELSE jobs
    /\ dq' = [dq EXCEPT !.pc[w] = "none", !.job[w] = 0,
                        !.abandoned = IF dq.pc[w] = "handler"
                                      THEN dq.abandoned \cup {dq.job[w]}
                                      ELSE dq.abandoned]
    /\ lastOp' = Op("peer.stop", <<>>, <<>>, <<>>)
    /\ UNCHANGED <<now, jobSeq, enqueued, claimLog, busVars, pollVars, sm, wk, wl, vw, av, cq>>

\* ------------------------------------------- JobWorker: start and stop
\* One JobWorker under start() and stop() calls made by several tasks of the
\* event loop, and the daemon's supervision of it.
\* wl.running    _running
\* wl.task       _task: the loop task it refers to (0: None)
\* wl.loops[l]   the loop tasks created so far: where each is suspended
\*               ("new": not run yet, "cancelling": cancel() requested and the
\*               CancelledError not delivered yet, "cancelled" / "exited":
\*               done), the job it has in flight (0: none) and how the
\*               handler ended
\* wl.stops[c]   the stop() calls suspended in "await self._task": the loop
\*               task awaited (0: no such call)
StopCallers == 1..MaxStopCalls

\* wl.daemon     the JobWorkerDaemon that owns the worker: its _running
\*               flag, _task (the main-loop task it refers to, 0: None), the
\*               main-loop tasks created so far ("new", "sleep",
\*               "cancelling", "cancelled", "exited"), and where a stop()
\*               call on it is suspended ("idle": no call, "worker_stop":
\*               in job_worker.stop(), "await_main": in await self._task)
DmInit == [running |-> FALSE, task |-> 0, mains |-> <<>>, stop |-> "idle",
           awaited |-> 0]

WlInit ==
    [running |-> FALSE, task |-> 0, loops |-> <<>>,
     stops |-> [c \in StopCallers |-> 0], daemon |-> DmInit]

NewLoop == [pc |-> "new", job |-> 0, returned |-> FALSE]
LoopDone == {"cancelled", "exited"}

\* The loop tasks with a job in flight: dequeued, its outcome not recorded.
InFlight(W) == {l \in DOMAIN W.loops : W.loops[l].pc \in {"handler", "outcome"}}

\* while self._running, where a loop task is about to go round again
LoopTop(W) == IF W.running THEN "dequeue" ELSE "exited"

\* JobWorker.start(): no await, so it runs as one step.
StartEffect(W) ==
    IF W.running THEN W
    ELSE [W EXCEPT !.running = TRUE,
                   !.loops = Append(W.loops, NewLoop),
                   !.task = Len(W.loops) + 1]

LifeStart ==
    /\ wl.running \/ Len(wl.loops) < MaxLoops
    /\ wl' = StartEffect(wl)
    /\ lastOp' = Op("life.start", <<>>, wl.running, <<>>)
    /\ UNCHANGED <<now, busVars, pollVars, jobVars, sm, wk, dq, vw, av, cq>>

\* JobWorkerDaemon._main_loop, one round of it:
\* if not self.job_worker._running: await self.job_worker.start()
DaemonMainLoop ==
    /\ wl.running \/ Len(wl.loops) < MaxLoops
    /\ wl' = StartEffect(wl)
    /\ lastOp' = Op("daemon.main_loop", <<>>, wl.running, <<>>)
    /\ UNCHANGED <<now, busVars, pollVars, jobVars, sm, wk, dq, vw, av, cq>>

\* JobWorker.stop() up to "await self._task". cancel() on a task that is
\* done does nothing and the await returns at once; otherwise the call is
\* suspended until the cancelled task has ended.
StopEffect(W, c) ==
    LET l == W.task
    IN IF l = 0 THEN [W EXCEPT !.running = FALSE]
       ELSE IF W.loops[l].pc \in LoopDone
       THEN [W EXCEPT !.running = FALSE, !.task = 0]
       ELSE [W EXCEPT !.running = FALSE,
                      !.loops[l] = [NewLoop EXCEPT !.pc = "cancelling"],
                      !.stops[c] = l]

LifeStopCall(c) ==
    /\ wl.stops[c] = 0
    /\ wl' = StopEffect(wl, c)
    /\ lastOp' = Op("life.stop", c, wl.task, <<>>)
    /\ UNCHANGED <<now, busVars, pollVars, jobVars, sm, wk, dq, vw, av, cq>>

\* The CancelledError is thrown into the loop task at the await it is
\* suspended in; neither except clause catches it and the task ends.
LoopCancelled(l) ==
    /\ l \in DOMAIN wl.loops
    /\ wl.loops[l].pc = "cancelling"
    /\ wl' = [wl EXCEPT !.loops[l].pc = "cancelled"]
    /\ lastOp' = Op("life.cancelled", l, <<>>, <<>>)
    /\ UNCHANGED <<now, busVars, pollVars, jobVars, sm, wk, dq, vw, av, cq>>

\* stop() resumes once the task it awaited has ended: self._task = None.
LifeStopResume(c) ==
    /\ wl.stops[c] # 0
    /\ wl.loops[wl.stops[c]].pc = "cancelled"
    /\ wl' = [wl EXCEPT !.task = 0, !.stops[c] = 0]
    /\ lastOp' = Op("life.stop_resume", c, wl.task, <<>>)
    /\ UNCHANGED <<now, busVars, pollVars, jobVars, sm, wk, dq, vw, av, cq>>

\* A loop task runs for the first time: while self._running, then dequeue.
LoopBegin(l) ==
    /\ l \in DOMAIN wl.loops
    /\ wl.loops[l].pc = "new"
    /\ wl' = [wl EXCEPT !.loops[l].pc = LoopTop(wl)]
    /\ lastOp' = Op("life.begin", l, <<>>, <<>>)
    /\ UNCHANGED <<now, busVars, pollVars, jobVars, sm, wk, dq, vw, av, cq>>

\* job = await self.job_queue.dequeue(), then the handler call or the sleep.
LoopDequeue(l) ==
    /\ l \in DOMAIN wl.loops
    /\ wl.loops[l].pc = "dequeue"
    /\ LET row == DequeueSelect(jobs, {})
       IN IF row = {}
          THEN /\ wl' = [wl EXCEPT !.loops[l].pc = "sleep"]
               /\ lastOp' = Op("life.dequeue", l, 0, InFlight(wl))
               /\ UNCHANGED <<jobs, claimLog>>
          ELSE LET j == CHOOSE x \in row : TRUE
               IN /\ jobs' = MarkProcessing(jobs, j.id)
                  /\ claimLog' = Append(claimLog, j.id)
                  /\ wl' = [wl EXCEPT !.loops[l].pc = "handler",
                                      !.loops[l].job = j.id]
                  /\ lastOp' = Op("life.dequeue", l, j.id, InFlight(wl))
    /\ UNCHANGED <<now, jobSeq, enqueued, busVars, pollVars, sm, wk, dq, vw, av, cq>>

\* The handler has returned or raised: complete_job or fail_job is awaited.
LoopHandlerEnds(l, returned) ==
    /\ l \in DOMAIN wl.loops
    /\ wl.loops[l].pc = "handler"
    /\ wl' = [wl EXCEPT !.loops[l].pc = "outcome",
                        !.loops[l].returned = returned]
    /\ lastOp' = Op("life.handler", l, returned, <<>>)
    /\ UNCHANGED <<now, busVars, pollVars, jobVars, sm, wk, dq, vw, av, cq>>

\* complete_job or fail_job has written the outcome; the loop goes round.
LoopRecorded(l) ==
    /\ l \in DOMAIN wl.loops
    /\ wl.loops[l].pc = "outcome"
    /\ jobs' = IF wl.loops[l].returned
               THEN MarkCompleted(jobs, wl.loops[l].job)
               ELSE MarkFailed(jobs, wl.loops[l].job, JobErrorText(<<101>>))
    /\ wl' = [wl EXCEPT !.loops[l] = [NewLoop EXCEPT !.pc = LoopTop(wl)]]
    /\ lastOp' = Op("life.recorded", l, wl.loops[l].job, <<>>)
    /\ UNCHANGED <<now, jobSeq, enqueued, claimLog, busVars, pollVars, sm, wk, dq, vw, av, cq>>

\* await asyncio.sleep(self.poll_interval) is over; the loop goes round.
LoopWake(l) ==
    /\ l \in DOMAIN wl.loops
    /\ wl.loops[l].pc = "sleep"
    /\ wl' = [wl EXCEPT !.loops[l].pc = LoopTop(wl)]
    /\ lastOp' = Op("life.wake", l, <<>>, <<>>)
    /\ UNCHANGED <<now, busVars, pollVars, jobVars, sm, wk, dq, vw, av, cq>>

\* ------------------------------------- JobWorkerDaemon: supervision
\* The stop() call slot of the daemon's own job_worker.stop(); the other
\* slots are calls made on the worker from outside the daemon.
DaemonStopCaller == MaxStopCalls
OutsideStopCallers == StopCallers \ {DaemonStopCaller}
MainDone == {"cancelled", "exited"}

\* JobWorkerDaemon.start(): job_worker.start() has no await, so the call
\* runs as one step; a call on a running daemon returns at once. As in
\* run_daemon, start() is not called while a stop() is suspended.
DaemonStart ==
    /\ ~wl.daemon.running
    /\ wl.daemon.stop = "idle"
    /\ Len(wl.daemon.mains) < MaxMains
    /\ wl.running \/ Len(wl.loops) < MaxLoops
    /\ wl' = [StartEffect(wl) EXCEPT
                 !.daemon.running = TRUE,
                 !.daemon.mains = Append(wl.daemon.mains, "new"),
                 !.daemon.task = Len(wl.daemon.mains) + 1]
    /\ lastOp' = Op("daemon.start", <<>>, wl.running, <<>>)
    /\ UNCHANGED <<now, busVars, pollVars, jobVars, sm, wk, dq, vw, av, cq>>

MainRound_NoRestart(W, m) ==
    IF W.daemon.running
    THEN [W EXCEPT !.daemon.mains[m] = "sleep"]
    ELSE [W EXCEPT !.daemon.mains[m] = "exited"]

\* _main_loop from "while self._running" to its next suspension: the worker
\* is started if its flag is down, then asyncio.sleep(5.0); with the
\* daemon's flag down the loop ends.
MainRound(W, m) ==
    IF W.daemon.running
    THEN [StartEffect(W) EXCEPT !.daemon.mains[m] = "sleep"]
    ELSE [W EXCEPT !.daemon.mains[m] = "exited"]

\* A main-loop task runs for the first time, or its sleep is over.
MainLoopRound(m) ==
    /\ m \in DOMAIN wl.daemon.mains
    /\ wl.daemon.mains[m] \in {"new", "sleep"}
    /\ wl' = MainRound(wl, m)
    /\ lastOp' = Op("daemon.main_loop_round", m, wl.running, <<>>)
    /\ UNCHANGED <<now, busVars, pollVars, jobVars, sm, wk, dq, vw, av, cq>>

\* stop() after job_worker.stop(): if self._task: cancel it and await it.
\* A task that is done is awaited at once (its CancelledError is caught).
CancelMain(W) ==
    LET m == W.daemon.task
    IN IF m = 0 THEN [W EXCEPT !.daemon.stop = "idle"]
       ELSE IF W.daemon.mains[m] \in MainDone
       THEN [W EXCEPT !.daemon.stop = "idle", !.daemon.task = 0]
       ELSE [W EXCEPT !.daemon.mains[m] = "cancelling",
                      !.daemon.stop = "await_main",
                      !.daemon.awaited = m]

\* JobWorkerDaemon.stop() up to its first suspension: the flag goes down,
\* then job_worker.stop().
DaemonStopCall ==
    /\ wl.daemon.stop = "idle"
    /\ wl.stops[DaemonStopCaller] = 0
    /\ LET W == StopEffect([wl EXCEPT !.daemon.running = FALSE], DaemonStopCaller)
       IN wl' = IF W.stops[DaemonStopCaller] # 0
                THEN [W EXCEPT !.daemon.stop = "worker_stop"]
                ELSE CancelMain(W)
    /\ lastOp' = Op("daemon.stop", <<>>, wl.running, <<>>)
    /\ UNCHANGED <<now, busVars, pollVars, jobVars, sm, wk, dq, vw, av, cq>>

\* job_worker.stop() resumes (the worker's _task = None) and returns; the
\* daemon's stop() goes on to its main-loop task.
DaemonStopAfterWorker ==
    /\ wl.daemon.stop = "worker_stop"
    /\ wl.loops[wl.stops[DaemonStopCaller]].pc = "cancelled"
    /\ wl' = CancelMain([wl EXCEPT !.task = 0, !.stops[DaemonStopCaller] = 0])
    /\ lastOp' = Op("daemon.stop_after_worker", <<>>, wl.running, <<>>)
    /\ UNCHANGED <<now, busVars, pollVars, jobVars, sm, wk, dq, vw, av, cq>>

\* The CancelledError is thrown into the main-loop task at its sleep; the
\* except clause logs it and raises it again.
MainLoopCancelled(m) ==
    /\ m \in DOMAIN wl.daemon.mains
    /\ wl.daemon.mains[m] = "cancelling"
    /\ wl' = [wl EXCEPT !.daemon.mains[m] = "cancelled"]
    /\ lastOp' = Op("daemon.main_loop_cancelled", m, wl.running, <<>>)
    /\ UNCHANGED <<now, busVars, pollVars, jobVars, sm, wk, dq, vw, av, cq>>

\* The daemon's stop() resumes from await self._task: self._task = None.
DaemonStopResume ==
    /\ wl.daemon.stop = "await_main"
    /\ wl.daemon.mains[wl.daemon.awaited] = "cancelled"
    /\ wl' = [wl EXCEPT !.daemon.task = 0, !.daemon.stop = "idle",
                        !.daemon.awaited = 0]
    /\ lastOp' = Op("daemon.stop_resume", <<>>, wl.running, <<>>)
    /\ UNCHANGED <<now, busVars, pollVars, jobVars, sm, wk, dq, vw, av, cq>>

\* ------------------------------------------------------ JobWorkerDaemon
\* The daemon registers _handle_avatar_generation for avatar_generation
\* jobs; the worker awaits it in _process_job.
\* av.job         the job the handler was last invoked for (0: none)
\* av.pc          what the handler awaits: "generate", "update", "publish";
\*                or how it is about to end: "return_ok", "return_fail",
\*                "raise"
\* av.noimage     jobs whose generation produced no image
\* av.stored      jobs whose avatar path was written to the profile store
\* av.published   jobs whose avatar_updated event was published
AvInit == [job |-> 0, pc |-> "idle", noimage |-> {}, stored |-> {},
           published |-> {}]

\* {"success": True, "avatar_path": avatar_path}
SuccessResult == {2}
\* {"success": False, "error": ...}
FailureResult == {3}

\* {"user_id": user_id, "avatar_path": avatar_path}; the path is named
\* after the job.
AvatarUpdated(job) ==
    PyDict(<<<<"user_id", PyStr("u1")>>, <<"avatar_path", PyInt(job)>>>>)

\* The worker awaits the handler it has called for its current job.
HandlerActive == wk.pc = "handler" /\ av.job = wk.job

\* _handle_avatar_generation(payload) up to
\* await generate_openai_avatar(...)
AvatarBegin ==
    /\ wk.pc = "handler" /\ av.job # wk.job
    /\ av' = [av EXCEPT !.job = wk.job, !.pc = "generate"]
    /\ lastOp' = Op("avatar.begin", wk.job, <<>>, <<>>)
    /\ UNCHANGED <<now, busVars, pollVars, jobVars, sm, wk, wl, dq, vw, cq>>

GenerationOutcomes == {"path", "none", "raised"}

\* if avatar_path: ... else: return {"success": False, ...}; an exception
\* is logged and raised again.
AfterGeneration(A, outcome) ==
    [A EXCEPT !.pc = CASE outcome = "path" -> "update"
                       [] outcome = "none" -> "return_fail"
                       [] outcome = "raised" -> "raise",
              !.noimage = IF outcome = "none" THEN A.noimage \cup {A.job}
                          ELSE A.noimage]

\* generate_openai_avatar has returned a path, returned None, or raised.
AvatarGenerated(outcome) ==
    /\ HandlerActive /\ av.pc = "generate"
    /\ av' = AfterGeneration(av, outcome)
    /\ lastOp' = Op("avatar.generated", av.job, outcome, <<>>)
    /\ UNCHANGED <<now, busVars, pollVars, jobVars, sm, wk, wl, dq, vw, cq>>

\* await self.db.update_user_avatar_path(user_id, avatar_path)
AvatarStored(ok) ==
    /\ HandlerActive /\ av.pc = "update"
    /\ av' = [av EXCEPT !.pc = IF ok THEN "publish" ELSE "raise",
                        !.stored = IF ok THEN av.stored \cup {av.job}
                                   ELSE av.stored]
    /\ lastOp' = Op("avatar.stored", av.job, ok, <<>>)
    /\ UNCHANGED <<now, busVars, pollVars, jobVars, sm, wk, wl, dq, vw, cq>>

\* await self.event_bus.publish("avatar_updated", {...})
AvatarPublished(ok) ==
    /\ HandlerActive /\ av.pc = "publish"
    /\ eventSeq < MaxEvents
    /\ IF ok THEN InsertEvent("avatar_updated", AvatarUpdated(av.job))
       ELSE UNCHANGED <<events, eventSeq, published>>
    /\ av' = [av EXCEPT !.pc = IF ok THEN "return_ok" ELSE "raise",
                        !.published = IF ok THEN av.published \cup {av.job}
                                      ELSE av.published]
    /\ lastOp' = Op("avatar.published", av.job, ok, <<>>)
    /\ UNCHANGED <<now, markLog, cleanedUp, pollVars, jobVars, sm, wk, wl, dq, vw, cq>>

\* The handler returns its result to _process_job.
AvatarReturns ==
    /\ HandlerActive /\ av.pc \in {"return_ok", "return_fail"}
    /\ WorkerHandlerReturns(IF av.pc = "return_ok" THEN SuccessResult
                            ELSE FailureResult)

\* except Exception as e: ...; raise
AvatarRaises(e) ==
    /\ HandlerActive /\ av.pc = "raise"
    /\ WorkerHandlerRaises(e)

\* -------------------------------------------------------- SessionManager
\* sm.sessObj[sid]   the AgentSession objects ever made (they outlive their
\*                   removal from the dictionaries while a call refers to them)
\* sm.active         keys of active_sessions, in insertion order
\* sm.executors, sm.locks, sm.histories   keys of the other dictionaries
\* sm.holder[sid], sm.waiters[sid]   the session's asyncio.Lock: the task
\*                   that holds it (0: free) and the tasks waiting, first come
\* sm.tasks[t]       the manager calls in progress (suspended at an await)
\* sm.issued[sid]    the calls on the session that passed the "not found"
\*                   test and have not returned yet, in the order issued
\* sm.started        handles the Agent Execution collaborator has started
\* sm.stopCalls      handles passed to the collaborator's stop_session
\* sm.cleanup_task   the _periodic_cleanup task: "none" (start() not called),
\*                   "running" or "done"
\* sm.hist[sid]      the messages of the session's ConversationHistory
\*                   object, <<role, n>> for the n-th message sent
\* sm.exchanges[n]   how the n-th send_message_to_agent call ended ("none":
\*                   not sent, "sent": in progress)
Users == {"u1", "u2"}
IdleTimeouts == {0, 1}
\* The manager calls that can be in progress at once: MaxTasks of them in
\* SessSpec, MaxLockTasks in LockSpec, MaxStopTasks in StopSpec.
Tasks == 1..MaxStopTasks
LockTasks == 1..MaxLockTasks
SessTasks == 1..MaxTasks
IdleTask == [kind |-> "idle", pc |-> "idle", sid |-> 0, todo |-> <<>>,
             timeout |-> 0, scanAt |-> 0, msg |-> 0]

SmInit ==
    [sessObj |-> <<>>, active |-> <<>>, executors |-> {}, locks |-> {},
     histories |-> {}, holder |-> <<>>, waiters |-> <<>>, issued |-> <<>>,
     tasks |-> [t \in Tasks |-> IdleTask], started |-> {}, stopCalls |-> {},
     cleanup_task |-> "none",
     hist |-> [sid \in 1..MaxSessions |-> <<>>],
     exchanges |-> [n \in 1..MaxMessages |-> "none"]]

Live(S) == Range(S.active)
Without(seq, x) == SelectSeq(seq, LAMBDA y : y # x)

UserActiveSession_NeverFound(S, user_id) == {}

\* get_user_active_session: the first session of the user in status active
\* ({} for None).
UserActiveSession(S, user_id) ==
    LET hits == {i \in DOMAIN S.active :
                    /\ S.sessObj[S.active[i]].user_id = user_id
                    /\ S.sessObj[S.active[i]].status = "active"}
    IN IF hits = {} THEN {}
       ELSE {S.active[CHOOSE i \in hits : \A k \in hits : i <= k]}

CleanupSession_KeepsHistory(S, sid) ==
    [S EXCEPT !.sessObj = IF sid \in Live(S)
                          THEN [S.sessObj EXCEPT ![sid].status = "stopped"]
                          ELSE S.sessObj,
              !.active = Without(S.active, sid),
              !.executors = S.executors \ {sid},
              !.locks = S.locks \ {sid}]

\* _cleanup_session
CleanupSession(S, sid) ==
    [S EXCEPT !.sessObj = IF sid \in Live(S)
                          THEN [S.sessObj EXCEPT ![sid].status = "stopped"]
                          ELSE S.sessObj,
              !.active = Without(S.active, sid),
              !.executors = S.executors \ {sid},
              !.locks = S.locks \ {sid},
              !.histories = S.histories \ {sid}]

Release_LastWaiter(S, sid) ==
    IF S.waiters[sid] = <<>>
    THEN [S EXCEPT !.holder[sid] = 0,
                   !.issued[sid] = Without(S.issued[sid], S.holder[sid])]
    ELSE [S EXCEPT !.holder[sid] = S.waiters[sid][Len(S.waiters[sid])],
                   !.waiters[sid] = SubSeq(S.waiters[sid], 1, Len(S.waiters[sid]) - 1),
                   !.issued[sid] = Without(S.issued[sid], S.holder[sid])]

\* asyncio.Lock.release at the end of the holder's call: the first waiter,
\* if any, is the next holder.
Release(S, sid) ==
    IF S.waiters[sid] = <<>>
    THEN [S EXCEPT !.holder[sid] = 0,
                   !.issued[sid] = Without(S.issued[sid], S.holder[sid])]
    ELSE [S EXCEPT !.holder[sid] = Head(S.waiters[sid]),
                   !.waiters[sid] = Tail(S.waiters[sid]),
                   !.issued[sid] = Without(S.issued[sid], S.holder[sid])]

LockFree_Always(S, sid) == TRUE

\* The lock is taken at once only when it is free and nobody waits for it.
LockFree(S, sid) == S.holder[sid] = 0 /\ S.waiters[sid] = <<>>

Issue(S, t, sid) ==
    IF t \in Range(S.issued[sid]) THEN S.issued[sid]
    ELSE Append(S.issued[sid], t)

\* stop_agent_session once it holds the lock: status stopping, then it awaits
\* the collaborator's stop_session(session.claude_process_id).
StopLocked(S, t, sid) ==
    [S EXCEPT !.holder[sid] = t,
              !.issued[sid] = Issue(S, t, sid),
              !.sessObj[sid].status = "stopping",
              !.stopCalls = S.stopCalls \cup {S.sessObj[sid].handle},
              !.tasks[t].pc = "stopping_handle",
              !.tasks[t].sid = sid]

\* stop_agent_session(sid) called by task t up to its first suspension; a
\* call on a session that is not live returns False at once.
RECURSIVE StopFrom(_, _, _)
StopFrom(S, t, todo) ==
    IF todo = <<>> THEN [S EXCEPT !.tasks[t] = IdleTask]
    ELSE LET sid == Head(todo)
             T == [S EXCEPT !.tasks[t].todo = Tail(todo)]
         IN IF sid \notin Live(S) THEN StopFrom(T, t, Tail(todo))
            ELSE IF LockFree(S, sid) THEN StopLocked(T, t, sid)
            ELSE [T EXCEPT !.waiters[sid] = Append(S.waiters[sid], t),
                           !.issued[sid] = Issue(S, t, sid),
                           !.tasks[t].pc = "waiting",
                           !.tasks[t].sid = sid]

\* The sessions cleanup_inactive_sessions finds idle, in dictionary order.
\* last_activity is a datetime after construction and a float (time.time())
\* once create_agent_session or a command has written it; .timestamp()
\* exists on the datetime only.
ScanRaises(S) ==
    \E sid \in Live(S) : S.sessObj[sid].last_activity.kind = "float"

InactiveSessions(S, idle_timeout) ==
    SelectSeq(S.active,
              LAMBDA sid : now - S.sessObj[sid].last_activity.t > idle_timeout)

Finished(S, t) == S.tasks[t].kind = "idle"

\* create_agent_session up to the await of executor.start_agent_session().
CreateCall(t, user_id) ==
    /\ sm.tasks[t].kind = "idle"
    /\ LET existing == UserActiveSession(sm, user_id)
           sid == Len(sm.sessObj) + 1
       IN IF existing # {}
          THEN /\ lastOp' = Op("create_agent_session", user_id,
                               <<"ok", CHOOSE x \in existing : TRUE>>, <<>>)
               /\ sm' = sm
          ELSE /\ sid <= MaxSessions
               /\ sm' = [sm EXCEPT
                     !.sessObj = Append(sm.sessObj,
                         [user_id |-> user_id, status |-> "starting",
                          last_activity |-> [kind |-> "datetime", t |-> now],
                          handle |-> 0]),
                     !.active = Append(sm.active, sid),
                     !.executors = sm.executors \cup {sid},
                     !.locks = sm.locks \cup {sid},
                     !.histories = sm.histories \cup {sid},
                     !.holder = Append(sm.holder, 0),
                     !.waiters = Append(sm.waiters, <<>>),
                     !.issued = Append(sm.issued, <<>>),
                     !.tasks[t] = [IdleTask EXCEPT !.kind = "create_agent_session",
                                                  !.pc = "starting", !.sid = sid]]
               /\ lastOp' = Op("create_agent_session", user_id, <<"suspended">>, <<>>)
    /\ UNCHANGED <<now, busVars, pollVars, jobVars, wk, ext>>

\* create_agent_session when building the execution configuration raises
\* (convert_user_to_agent_config: ValueError for an unsupported provider).
\* Nothing is registered yet and the name session is not bound, so the
\* except block's session.session_id raises UnboundLocalError in place of
\* the ValueError.
CreateConfigFails(t, user_id) ==
    /\ sm.tasks[t].kind = "idle"
    /\ UserActiveSession(sm, user_id) = {}
    /\ sm' = sm
    /\ lastOp' = Op("create_agent_session", user_id,
                    <<"raised", "UnboundLocalError">>, <<>>)
    /\ UNCHANGED <<now, busVars, pollVars, jobVars, wk, ext>>

\* The collaborator has started the handle, or has raised.
CreateResume(t, started) ==
    /\ sm.tasks[t].pc = "starting"
    /\ LET sid == sm.tasks[t].sid
       IN IF started
          THEN /\ sm' = [sm EXCEPT
                     !.sessObj[sid].handle = sid,
                     !.sessObj[sid].status = "active",
                     !.sessObj[sid].last_activity = [kind |-> "float", t |-> now],
                     !.started = sm.started \cup {sid},
                     !.tasks[t] = IdleTask]
               /\ lastOp' = Op("resume", <<"create_agent_session", t>>,
                               <<"ok", sid>>, <<>>)
          ELSE /\ sm' = [(IF sid \in Live(sm) THEN CleanupSession(sm, sid) ELSE sm)
                           EXCEPT !.tasks[t] = IdleTask]
               /\ lastOp' = Op("resume", <<"create_agent_session", t>>,
                               <<"raised", "start_agent_session">>, <<>>)
    /\ UNCHANGED <<now, busVars, pollVars, jobVars, wk, ext>>

Commands == {"execute_with_agent", "send_message_to_agent"}

NotFound_NeverCreated(S, sid) == sid > Len(S.sessObj)

\* if session_id not in self.active_sessions
NotFound(S, sid) == sid \notin Live(S)

\* execute_with_agent / send_message_to_agent up to the first suspension.
CommandCall(t, kind, sid) ==
    /\ sm.tasks[t].kind = "idle"
    /\ IF NotFound(sm, sid)
       THEN /\ sm' = sm
            /\ lastOp' = Op(kind, sid, <<"not_found">>, <<>>)
       ELSE IF ~LockFree(sm, sid)
       THEN /\ sm' = [sm EXCEPT !.waiters[sid] = Append(sm.waiters[sid], t),
                               !.issued[sid] = Issue(sm, t, sid),
                               !.tasks[t] = [IdleTask EXCEPT !.kind = kind,
                                                 !.pc = "waiting", !.sid = sid]]
            /\ lastOp' = Op(kind, sid, <<"suspended">>, <<>>)
       ELSE IF sm.sessObj[sid].status # "active"
       THEN /\ sm' = sm
            /\ lastOp' = Op(kind, sid, <<"not_active">>, <<>>)
       ELSE /\ sm' = [sm EXCEPT !.holder[sid] = t,
                               !.issued[sid] = Issue(sm, t, sid),
                               !.tasks[t] = [IdleTask EXCEPT !.kind = kind,
                                                 !.pc = "calling", !.sid = sid]]
            /\ lastOp' = Op(kind, sid, <<"suspended">>, <<>>)
    /\ UNCHANGED <<now, busVars, pollVars, jobVars, wk, ext>>

\* A command that waited for the lock now holds it.
CommandWake(t) ==
    /\ sm.tasks[t].kind \in Commands /\ sm.tasks[t].pc = "waiting"
    /\ LET sid == sm.tasks[t].sid
       IN /\ sm.holder[sid] = t
          /\ IF sm.sessObj[sid].status # "active"
             THEN /\ sm' = [Release(sm, sid) EXCEPT !.tasks[t] = IdleTask]
                  /\ lastOp' = Op("resume", <<sm.tasks[t].kind, t>>,
                                  <<"not_active">>, <<>>)
             ELSE /\ sm' = [sm EXCEPT !.tasks[t].pc = "calling"]
                  /\ lastOp' = Op("resume", <<sm.tasks[t].kind, t>>,
                                  <<"suspended">>, <<>>)
    /\ UNCHANGED <<now, busVars, pollVars, jobVars, wk, ext>>

CommandOutcomes == {"success", "failure", "raised"}

AfterCommand_StatusKept(S, sid, outcome) ==
    IF outcome = "raised" THEN S
    ELSE [S EXCEPT !.sessObj[sid].last_activity = [kind |-> "float", t |-> now]]

\* After the collaborator call: a returned result (success or not) stamps
\* last_activity, an exception sets status error.
AfterCommand(S, sid, outcome) ==
    IF outcome = "raised"
    THEN [S EXCEPT !.sessObj[sid].status = "error"]
    ELSE [S EXCEPT !.sessObj[sid].last_activity = [kind |-> "float", t |-> now]]

\* The collaborator's execute_command / send_message has returned a result
\* (success or not) or has raised.
CommandDone(t, outcome) ==
    /\ sm.tasks[t].kind \in Commands /\ sm.tasks[t].pc = "calling"
    /\ LET sid == sm.tasks[t].sid
           S == AfterCommand(sm, sid, outcome)
       IN /\ sm' = [Release(S, sid) EXCEPT !.tasks[t] = IdleTask]
          /\ lastOp' = Op("resume", <<sm.tasks[t].kind, t>>, <<outcome>>, <<>>)
    /\ UNCHANGED <<now, busVars, pollVars, jobVars, wk, ext>>

\* stop_agent_session up to the first suspension.
StopCall(t, sid) ==
    /\ sm.tasks[t].kind = "idle"
    /\ LET S == [sm EXCEPT !.tasks[t].kind = "stop_agent_session"]
       IN /\ sm' = StopFrom(S, t, <<sid>>)
          /\ lastOp' = Op("stop_agent_session", sid,
                          IF Finished(sm', t) THEN <<"returned", FALSE>>
                          ELSE <<"suspended">>, <<>>)
    /\ UNCHANGED <<now, busVars, pollVars, jobVars, wk, ext>>

Stoppers == {"stop_agent_session", "cleanup_inactive_sessions"}

\* A stop that waited for the lock now holds it.
StopWake(t) ==
    /\ sm.tasks[t].kind \in Stoppers /\ sm.tasks[t].pc = "waiting"
    /\ sm.holder[sm.tasks[t].sid] = t
    /\ sm' = StopLocked(sm, t, sm.tasks[t].sid)
    /\ lastOp' = Op("resume", <<sm.tasks[t].kind, t>>, <<"suspended">>,
                    <<sm.tasks[t].scanAt, sm.tasks[t].timeout, t>>)
    /\ UNCHANGED <<now, busVars, pollVars, jobVars, wk, ext>>

StopOutcomes == {"true", "false", "raised"}

\* After the collaborator's stop_session: _cleanup_session when it returned
\* (true or false); the except branch returns False without it.
AfterStop(S, sid, outcome) ==
    IF outcome = "raised" THEN S ELSE CleanupSession(S, sid)

\* The collaborator's stop_session has returned or raised: the lock is
\* released; the reaper goes on with the next session of its list.
StopDone(t, outcome) ==
    /\ sm.tasks[t].kind \in Stoppers /\ sm.tasks[t].pc = "stopping_handle"
    /\ LET sid == sm.tasks[t].sid
           S == Release(AfterStop(sm, sid, outcome), sid)
       IN /\ sm' = StopFrom(S, t, sm.tasks[t].todo)
          /\ lastOp' = Op("resume", <<sm.tasks[t].kind, t>>,
                          IF Finished(sm', t) THEN <<"returned", outcome = "true">>
                          ELSE <<"suspended">>,
                          <<sm.tasks[t].scanAt, sm.tasks[t].timeout, t>>)
    /\ UNCHANGED <<now, busVars, pollVars, jobVars, wk, ext>>

\* cleanup_inactive_sessions(idle_timeout) up to the first suspension.
ReapCall(t, idle_timeout) ==
    /\ sm.tasks[t].kind = "idle"
    /\ IF ScanRaises(sm)
       THEN /\ sm' = sm
            /\ lastOp' = Op("cleanup_inactive_sessions", idle_timeout,
                            <<"raised", "AttributeError">>, <<now, idle_timeout, t>>)
       ELSE LET S == [sm EXCEPT !.tasks[t] =
                        [IdleTask EXCEPT !.kind = "cleanup_inactive_sessions",
                                         !.timeout = idle_timeout, !.scanAt = now]]
            IN /\ sm' = StopFrom(S, t, InactiveSessions(sm, idle_timeout))
               /\ lastOp' = Op("cleanup_inactive_sessions", idle_timeout,
                               IF Finished(sm', t) THEN <<"returned", FALSE>>
                               ELSE <<"suspended">>, <<now, idle_timeout, t>>)
    /\ UNCHANGED <<now, busVars, pollVars, jobVars, wk, ext>>

\* -------------------------------- send_message_to_agent and the history
\* ConversationHistory.add_message: the message is appended.
AddMessage(h, role, n) == Append(h, <<role, n>>)

Sent(S) == Cardinality({n \in 1..MaxMessages : S.exchanges[n] # "none"})

\* send_message_to_agent with the lock held: the status test, then the
\* user message goes into the history and executor.send_message is awaited.
SendLocked(S, t, sid) ==
    IF S.sessObj[sid].status # "active"
    THEN [Release([S EXCEPT !.holder[sid] = t], sid) EXCEPT
              !.exchanges[S.tasks[t].msg] = "not_active",
              !.tasks[t] = IdleTask]
    ELSE [S EXCEPT !.holder[sid] = t,
                   !.hist[sid] = AddMessage(S.hist[sid], "user", S.tasks[t].msg),
                   !.tasks[t].pc = "calling"]

\* send_message_to_agent(sid, message n) up to its first suspension.
SendCall(t, sid) ==
    /\ sm.tasks[t].kind = "idle"
    /\ Sent(sm) < MaxMessages
    /\ LET n == Sent(sm) + 1
           T == [sm EXCEPT !.exchanges[n] = "sent",
                           !.issued[sid] = Issue(sm, t, sid),
                           !.tasks[t] = [IdleTask EXCEPT
                                            !.kind = "send_message_to_agent",
                                            !.pc = "waiting", !.sid = sid,
                                            !.msg = n]]
       IN /\ sm' = IF NotFound(sm, sid)
                   THEN [sm EXCEPT !.exchanges[n] = "not_found"]
                   ELSE IF ~LockFree(sm, sid)
                   THEN [T EXCEPT !.waiters[sid] = Append(sm.waiters[sid], t)]
                   ELSE SendLocked(T, t, sid)
          /\ lastOp' = Op("send_message_to_agent", <<sid, n>>, <<>>, <<>>)
    /\ UNCHANGED <<now, busVars, pollVars, jobVars, wk, ext>>

\* A send_message_to_agent that waited for the lock now holds it.
SendWake(t) ==
    /\ sm.tasks[t].kind = "send_message_to_agent" /\ sm.tasks[t].pc = "waiting"
    /\ sm.holder[sm.tasks[t].sid] = t
    /\ sm' = SendLocked(sm, t, sm.tasks[t].sid)
    /\ lastOp' = Op("resume", <<"send_message_to_agent", t>>, <<>>, <<>>)
    /\ UNCHANGED <<now, busVars, pollVars, jobVars, wk, ext>>

\* After executor.send_message: the reply goes into the history when
\* result["success"]; last_activity and the status as for a command.
AfterSend(S, sid, n, outcome) ==
    [AfterCommand(S, sid, outcome) EXCEPT
        !.hist[sid] = IF outcome = "success"
                      THEN AddMessage(S.hist[sid], "assistant", n)
                      ELSE S.hist[sid],
        !.exchanges[n] = outcome]

\* The collaborator's send_message has returned a result or has raised.
SendDone(t, outcome) ==
    /\ sm.tasks[t].kind = "send_message_to_agent" /\ sm.tasks[t].pc = "calling"
    /\ LET sid == sm.tasks[t].sid
           S == AfterSend(sm, sid, sm.tasks[t].msg, outcome)
       IN /\ sm' = [Release(S, sid) EXCEPT !.tasks[t] = IdleTask]
          /\ lastOp' = Op("resume", <<"send_message_to_agent", t>>, <<outcome>>, <<>>)
    /\ UNCHANGED <<now, busVars, pollVars, jobVars, wk, ext>>

\* --------------------------------------- SessionManager.start and stop
\* The task slots of the calls in StopSpec: stop() is called in StopTask,
\* create_agent_session in one of CreateTasks, and the _periodic_cleanup
\* task is PeriodicTask.
StopTask == 1
CreateTask == 2
CreateTasks == {CreateTask, 3}
PeriodicTask == MaxStopTasks

\* The collaborator's stop_session as AgentExecutor implements it: it
\* catches its own errors and returns False.
StopReturns == {"true", "false"}

\* SessionManager.start()
ManagerStart ==
    /\ sm.cleanup_task = "none"
    /\ sm' = [sm EXCEPT !.cleanup_task = "running"]
    /\ lastOp' = Op("manager_start", <<>>, <<>>, <<>>)
    /\ UNCHANGED <<now, busVars, pollVars, jobVars, wk, ext>>

\* _periodic_cleanup after its sleep: cleanup_inactive_sessions() up to the
\* first suspension; an exception of the scan is logged.
PeriodicReap(idle_timeout) ==
    /\ sm.cleanup_task = "running"
    /\ ReapCall(PeriodicTask, idle_timeout)

\* self.cleanup_task.cancel(); await self.cleanup_task. The CancelledError
\* reaches the task where it is suspended: in its sleep, waiting for a
\* session's lock, or holding the lock in stop_agent_session, whose
\* except Exception does not catch it, so that the lock is released and the
\* session is left as it is. _periodic_cleanup catches it and ends.
CancelPeriodic(S) ==
    LET p == PeriodicTask
        sid == S.tasks[p].sid
        R == IF S.tasks[p].kind = "idle" THEN S
             ELSE IF S.holder[sid] = p THEN Release(S, sid)
             ELSE [S EXCEPT !.waiters[sid] = Without(S.waiters[sid], p),
                            !.issued[sid] = Without(S.issued[sid], p)]
    IN IF S.cleanup_task = "running"
       THEN [R EXCEPT !.tasks[p] = IdleTask, !.cleanup_task = "done"]
       ELSE S

\* stop(): stop_all_sessions() stops the sessions of
\* list(self.active_sessions.keys()) one after the other; when the last
\* stop_agent_session has returned the cleanup task is cancelled and stop()
\* returns.
ManagerStopFrom(S, t, todo) ==
    LET R == StopFrom(S, t, todo)
    IN IF Finished(R, t) THEN CancelPeriodic(R) ELSE R

StopProgress(S, t) == IF Finished(S, t) THEN <<"returned">> ELSE <<"suspended">>

\* SessionManager.stop() up to its first suspension.
ManagerStopCall(t) ==
    /\ sm.tasks[t].kind = "idle"
    /\ LET S == [sm EXCEPT !.tasks[t].kind = "manager_stop"]
       IN /\ sm' = ManagerStopFrom(S, t, sm.active)
          /\ lastOp' = Op("manager_stop", t, StopProgress(sm', t), <<>>)
    /\ UNCHANGED <<now, busVars, pollVars, jobVars, wk, ext>>

\* A stop_agent_session of stop_all_sessions that waited for the lock now
\* holds it.
ManagerStopWake(t) ==
    /\ sm.tasks[t].kind = "manager_stop" /\ sm.tasks[t].pc = "waiting"
    /\ sm.holder[sm.tasks[t].sid] = t
    /\ sm' = StopLocked(sm, t, sm.tasks[t].sid)
    /\ lastOp' = Op("resume", <<"manager_stop", t>>, <<"suspended">>, <<>>)
    /\ UNCHANGED <<now, busVars, pollVars, jobVars, wk, ext>>

\* The collaborator's stop_session has returned: _cleanup_session, the lock
\* is released, and stop_all_sessions goes on with the next session.
ManagerStopDone(t, outcome) ==
    /\ sm.tasks[t].kind = "manager_stop" /\ sm.tasks[t].pc = "stopping_handle"
    /\ LET sid == sm.tasks[t].sid
           S == Release(AfterStop(sm, sid, outcome), sid)
       IN /\ sm' = ManagerStopFrom(S, t, sm.tasks[t].todo)
          /\ lastOp' = Op("resume", <<"manager_stop", t>>, StopProgress(sm', t), <<>>)
    /\ UNCHANGED <<now, busVars, pollVars, jobVars, wk, ext>>

\* ---------------------------------------------------------------- clock
\* The clock moves by a tick or by a day.
TimeSteps == {1, DayTicks}

\* Advances so far: the clock has moved at most limit times.
Advances == ((now - StartTime) \div DayTicks) + ((now - StartTime) % DayTicks)

Tick(d, limit) ==
    /\ Advances < limit
    /\ now' = now + d
    /\ lastOp' = Op("tick", d, <<>>, <<>>)

\* --------------------------------------------------------- specification
Init ==
    /\ now = StartTime
    /\ lastOp = Op("init", <<>>, <<>>, <<>>)
    /\ events = {}
    /\ eventSeq = 0
    /\ published = <<>>
    /\ markLog = <<>>
    /\ cleanedUp = {}
    /\ pollRunning = FALSE
    /\ pollPc = "none"
    /\ pollBatch = {}
    /\ handled = {}
    /\ jobs = {}
    /\ jobSeq = 0
    /\ enqueued = <<>>
    /\ claimLog = <<>>
    /\ sm = SmInit
    /\ wk = WkInit
    /\ pd = PdInit
    /\ wl = WlInit
    /\ dq = DqInit
    /\ vw = VwInit
    /\ av = AvInit
    /\ cq = CqInit

SinceArgs == {{}} \cup {{p.at} : p \in Range(published)}

\* The Event Bus used through its API by one caller.
BusNext ==
    \/ \E d \in TimeSteps : Tick(d, MaxTicks) /\ UNCHANGED <<busVars, pollVars, jobVars, sm, wk, ext>>
    \/ Publish(DefaultMessage[1], DefaultMessage[2])
    \/ \E l \in ConsumeLimits, m \in BOOLEAN, s \in SinceArgs : Consume(l, m, s)
    \/ \E h \in RetentionArgs : Cleanup(h)

\* The Event Bus drained by an Event Poller that is started and stopped.
PollerNext ==
    \/ \E d \in TimeSteps : Tick(d, MaxTicks) /\ UNCHANGED <<busVars, pollVars, jobVars, sm, wk, ext>>
    \/ Publish(DefaultMessage[1], DefaultMessage[2])
    \/ PollStart
    \/ PollStop
    \/ PollConsume
    \/ \E id \in pollBatch : PollDispatch(id)
    \/ \E id \in pd.running : PollCallbackReturns(id)
    \/ \E id \in pd.running : PollCallbackRaises(id)
    \/ PollGathered
    \/ PollTimeout
    \/ PollCleanup
    \/ PollSkipCleanup
    \/ PollSleep

\* The Job Queue used through its API by one caller; the clock moves by ticks.
JobNext ==
    \/ \E d \in {1} : Tick(d, MaxJobTicks) /\ UNCHANGED <<busVars, pollVars, jobVars, sm, wk, ext>>
    \/ \E t \in JobTypes, p \in Payloads : Enqueue(t, p)
    \/ \E f \in {{}} \cup {{t} : t \in JobTypes} : Dequeue(f)
    \/ \E id \in 1..MaxJobs, r \in Results : CompleteJob(id, r)
    \/ \E id \in 1..MaxJobs, m \in ErrorMessages : FailJob(id, m)
    \/ \E h \in RetentionArgs : JobCleanup(h)

\* The Session Manager with several calls in progress on one event loop.
SessNext ==
    \/ \E d \in {1} : Tick(d, MaxSessTicks) /\ UNCHANGED <<busVars, pollVars, jobVars, sm, wk, ext>>
    \/ \E t \in SessTasks, u \in Users : CreateCall(t, u)
    \/ \E t \in SessTasks, u \in Users : CreateConfigFails(t, u)
    \/ \E t \in SessTasks, ok \in BOOLEAN : CreateResume(t, ok)
    \/ \E t \in SessTasks, k \in Commands, sid \in 1..MaxSessions : CommandCall(t, k, sid)
    \/ \E t \in SessTasks : CommandWake(t)
    \/ \E t \in SessTasks, o \in CommandOutcomes : CommandDone(t, o)
    \/ \E t \in SessTasks, sid \in 1..MaxSessions : StopCall(t, sid)
    \/ \E t \in SessTasks : StopWake(t)
    \/ \E t \in SessTasks, o \in StopOutcomes : StopDone(t, o)
    \/ \E t \in SessTasks, i \in IdleTimeouts : ReapCall(t, i)

\* The Job Worker on a job store that other code enqueues into.
WorkerNext ==
    \/ \E d \in TimeSteps : Tick(d, MaxWorkerTicks) /\ UNCHANGED <<busVars, pollVars, jobVars, sm, wk, ext>>
    \/ \E t \in JobTypes, p \in Payloads : Enqueue(t, p)
    \/ WorkerStart
    \/ WorkerStop
    \/ \E ok \in BOOLEAN : WorkerDequeue(ok)
    \/ \E r \in Results : WorkerHandlerReturns(r)
    \/ \E e \in HandlerErrors : WorkerHandlerRaises(e)
    \/ \E ok \in BOOLEAN : WorkerCompleteJob(ok)
    \/ \E ok \in BOOLEAN : WorkerFailJob(ok)
    \/ WorkerSleep
    \/ \E ok \in BOOLEAN : WorkerCleanup(ok)
    \/ WorkerSkipCleanup
    \/ WorkerErrorSleep

\* The Event Bus publishing and consuming events of several types and
\* payloads.
TripNext ==
    \/ \E d \in {1} : Tick(d, MaxTripTicks) /\ UNCHANGED <<busVars, pollVars, jobVars, sm, wk, ext>>
    \/ \E m \in Messages : Publish(m[1], m[2])
    \/ \E l \in {1, 10}, k \in BOOLEAN : Consume(l, k, {})

\* The web viewer: an Event Poller with handle_event as its callback.
ViewerNext ==
    \/ \E m \in ViewerMessages : Publish(m[1], m[2])
    \/ PollStart
    \/ PollStop
    \/ PollConsume
    \/ \E id \in pollBatch : PollDispatch(id)
    \/ \E id \in pd.running : ViewerHandleEvent(id)
    \/ \E id \in vw.generating, g \in BOOLEAN : ViewerGenerationEnds(id, g)
    \/ PollGathered
    \/ PollSkipCleanup
    \/ PollSleep

\* The Job Worker Daemon: the worker with the avatar_generation handler.
DaemonNext ==
    \/ \E p \in Payloads : Enqueue("avatar_generation", p)
    \/ WorkerStart
    \/ WorkerStop
    \/ \E ok \in BOOLEAN : WorkerDequeue(ok)
    \/ AvatarBegin
    \/ \E o \in GenerationOutcomes : AvatarGenerated(o)
    \/ \E ok \in BOOLEAN : AvatarStored(ok)
    \/ \E ok \in BOOLEAN : AvatarPublished(ok)
    \/ AvatarReturns
    \/ \E e \in HandlerErrors : AvatarRaises(e)
    \/ \E ok \in BOOLEAN : WorkerCompleteJob(ok)
    \/ \E ok \in BOOLEAN : WorkerFailJob(ok)
    \/ WorkerSleep
    \/ WorkerSkipCleanup
    \/ WorkerErrorSleep

\* The Session Manager started and stopped while sessions are created and
\* the periodic cleanup runs.
StopNext ==
    \/ \E d \in {1} : Tick(d, MaxStopTicks) /\ UNCHANGED <<busVars, pollVars, jobVars, sm, wk, ext>>
    \/ ManagerStart
    \/ \E t \in CreateTasks, u \in Users : CreateCall(t, u)
    \/ \E t \in CreateTasks, ok \in BOOLEAN : CreateResume(t, ok)
    \/ ManagerStopCall(StopTask)
    \/ ManagerStopWake(StopTask)
    \/ \E o \in StopReturns : ManagerStopDone(StopTask, o)
    \/ \E i \in IdleTimeouts : PeriodicReap(i)
    \/ StopWake(PeriodicTask)
    \/ \E o \in StopReturns : StopDone(PeriodicTask, o)

\* The daemon started and stopped, its main loop, and stop() calls made on
\* its worker from outside; a call from outside is made only while another
\* loop task can still be created.
SuperNext ==
    \/ DaemonStart
    \/ \E m \in 1..MaxMains : MainLoopRound(m)
    \/ DaemonStopCall
    \/ DaemonStopAfterWorker
    \/ \E m \in 1..MaxMains : MainLoopCancelled(m)
    \/ DaemonStopResume
    \/ \E c \in OutsideStopCallers : Len(wl.loops) < MaxLoops /\ LifeStopCall(c)
    \/ \E c \in OutsideStopCallers : LifeStopResume(c)
    \/ \E l \in 1..MaxLoops : LoopCancelled(l)
    \/ \E l \in 1..MaxLoops : LoopBegin(l)
    \/ \E l \in 1..MaxLoops : LoopDequeue(l)
    \/ \E l \in 1..MaxLoops : LoopWake(l)

\* One user's sessions under MaxLockTasks concurrent send_message_to_agent
\* calls, with the sessions created in one task and stopped in another.
TalkNext ==
    \/ CreateCall(CreateTask, "u1")
    \/ CreateResume(CreateTask, TRUE)
    \/ \E t \in LockTasks, sid \in 1..MaxSessions : SendCall(t, sid)
    \/ \E t \in LockTasks : SendWake(t)
    \/ \E t \in LockTasks, o \in CommandOutcomes : SendDone(t, o)
    \/ \E sid \in 1..MaxSessions : StopCall(StopTask, sid)
    \/ StopWake(StopTask)
    \/ \E o \in StopReturns : StopDone(StopTask, o)

\* One event store with MaxConsumers consumers calling consume.
ConsumersNext ==
    \/ Publish(DefaultMessage[1], DefaultMessage[2])
    \/ \E c \in Consumers, l \in {1, PollLimit} : ConsumeSelectStep(c, l)
    \/ \E c \in Consumers : ConsumeMarkStep(c)

\* One job store with MaxWorkers workers calling dequeue.
RaceNext ==
    \/ \E d \in {1} : Tick(d, MaxJobTicks) /\ UNCHANGED <<busVars, pollVars, jobVars, sm, wk, ext>>
    \/ \E t \in JobTypes, p \in Payloads : Enqueue(t, p)
    \/ \E w \in Workers : DequeueSelectStep(w)
    \/ \E w \in Workers : DequeueMarkStep(w)

\* One Job Worker started, stopped and supervised by several tasks.
LifeNext ==
    \/ \E p \in Payloads : Enqueue("avatar_generation", p)
    \/ LifeStart
    \/ DaemonMainLoop
    \/ \E c \in StopCallers : LifeStopCall(c)
    \/ \E c \in StopCallers : LifeStopResume(c)
    \/ \E l \in 1..MaxLoops : LoopCancelled(l)
    \/ \E l \in 1..MaxLoops : LoopBegin(l)
    \/ \E l \in 1..MaxLoops : LoopDequeue(l)
    \/ \E l \in 1..MaxLoops, r \in BOOLEAN : LoopHandlerEnds(l, r)
    \/ \E l \in 1..MaxLoops : LoopRecorded(l)
    \/ \E l \in 1..MaxLoops : LoopWake(l)

\* One user's sessions under MaxLockTasks concurrent calls.
LockNext ==
    \/ \E t \in LockTasks : CreateCall(t, "u1")
    \/ \E t \in LockTasks : CreateResume(t, TRUE)
    \/ \E t \in LockTasks, k \in Commands, sid \in 1..MaxSessions : CommandCall(t, k, sid)
    \/ \E t \in LockTasks : CommandWake(t)
    \/ \E t \in LockTasks, o \in CommandOutcomes : CommandDone(t, o)
    \/ \E t \in LockTasks, sid \in 1..MaxSessions : StopCall(t, sid)
    \/ \E t \in LockTasks : StopWake(t)
    \/ \E t \in LockTasks, o \in StopOutcomes : StopDone(t, o)

\* Two Job Workers on one jobs table, started and stopped while the clock
\* runs; the store does not fail.
SharedNext ==
    \/ \E d \in {2 * DayTicks} : Tick(d, MaxWorkerTicks) /\ UNCHANGED <<busVars, pollVars, jobVars, sm, wk, ext>>
    \/ \E p \in Payloads : Enqueue("avatar_generation", p)
    \/ \E w \in Workers : PeerStart(w)
    \/ \E w \in Workers : PeerSelect(w)
    \/ \E w \in Workers : PeerMark(w)
    \/ \E w \in Workers, r \in BOOLEAN : PeerHandlerEnds(w, r)
    \/ \E w \in Workers : PeerRecord(w)
    \/ \E w \in Workers, x \in BOOLEAN : PeerStop(w, x)
    \/ \E h \in {DefaultRetentionHours} : JobCleanup(h)

Next ==
    \/ BusNext \/ PollerNext \/ JobNext \/ SessNext \/ LockNext \/ WorkerNext
    \/ LifeNext \/ RaceNext \/ TripNext \/ ViewerNext \/ DaemonNext
    \/ StopNext \/ SuperNext \/ TalkNext \/ ConsumersNext \/ SharedNext

Spec == Init /\ [][Next]_vars
BusSpec == Init /\ [][BusNext]_vars
PollerSpec == Init /\ [][PollerNext]_vars
JobSpec == Init /\ [][JobNext]_vars
SessSpec == Init /\ [][SessNext]_vars
LockSpec == Init /\ [][LockNext]_vars
WorkerSpec == Init /\ [][WorkerNext]_vars
LifeSpec == Init /\ [][LifeNext]_vars
RaceSpec == Init /\ [][RaceNext]_vars
TripSpec == Init /\ [][TripNext]_vars
ViewerSpec == Init /\ [][ViewerNext]_vars
DaemonSpec == Init /\ [][DaemonNext]_vars
StopSpec == Init /\ [][StopNext]_vars
TalkSpec == Init /\ [][TalkNext]_vars
ConsumersSpec == Init /\ [][ConsumersNext]_vars
\* Every main-loop task that can run does run: its sleep of 5 s ends.
SuperFairness == \A m \in 1..MaxMains : WF_vars(MainLoopRound(m))
SuperSpec == Init /\ [][SuperNext]_vars /\ SuperFairness

\* The worker's loop task is scheduled again whenever a sleep is over or a
\* store call has returned or raised; a handler may never end.
WorkerFairness ==
    /\ WF_vars(\E ok \in BOOLEAN : WorkerDequeue(ok))
    /\ WF_vars(\E ok \in BOOLEAN : WorkerCompleteJob(ok))
    /\ WF_vars(\E ok \in BOOLEAN : WorkerFailJob(ok))
    /\ WF_vars(WorkerSleep)
    /\ WF_vars(WorkerSkipCleanup \/ \E ok \in BOOLEAN : WorkerCleanup(ok))
    /\ WF_vars(WorkerErrorSleep)

\* The Job Worker's loop on its own: the wall clock stands still.
LoopNext ==
    \/ \E t \in JobTypes, p \in Payloads : Enqueue(t, p)
    \/ WorkerStart
    \/ WorkerStop
    \/ \E ok \in BOOLEAN : WorkerDequeue(ok)
    \/ \E r \in Results : WorkerHandlerReturns(r)
    \/ \E e \in HandlerErrors : WorkerHandlerRaises(e)
    \/ \E ok \in BOOLEAN : WorkerCompleteJob(ok)
    \/ \E ok \in BOOLEAN : WorkerFailJob(ok)
    \/ WorkerSleep
    \/ \E ok \in BOOLEAN : WorkerCleanup(ok)
    \/ WorkerSkipCleanup
    \/ WorkerErrorSleep

WorkerFairSpec == Init /\ [][LoopNext]_vars /\ WorkerFairness

\* The loop's awaits end, and so does the handler: it returns or raises.
SharedFairness ==
    \A w \in Workers :
        /\ WF_vars(PeerMark(w))
        /\ WF_vars(\E r \in BOOLEAN : PeerHandlerEnds(w, r))
        /\ WF_vars(PeerRecord(w))

SharedSpec == Init /\ [][SharedNext]_vars /\ SharedFairness

\* ================================================================ claims
EventIds == {e.id : e \in events}
MarkedIds == {markLog[i].id : i \in DOMAIN markLog}
PubPos(id) == CHOOSE i \in DOMAIN published : published[i].id = id
PubAt(id) == published[PubPos(id)].at

\* C1 -- Event FIFO: the events that successive consume calls (marking, no
\* since filter) return come in the order they were published, and a call
\* never returns an event while an earlier-published one is left unprocessed.
C1_EventFifo ==
    /\ \A i, j \in DOMAIN markLog :
          (i < j /\ markLog[i].nosince /\ markLog[j].nosince)
              => PubPos(markLog[i].id) < PubPos(markLog[j].id)
    /\ (ActOf(lastOp) = "consume" /\ ArgOf(lastOp)[2] /\ ArgOf(lastOp)[3] = {})
          => \A id \in Range(RetOf(lastOp)), e \in events :
                 ~e.processed => PubPos(id) < PubPos(e.id)

\* Three events, two of them published in the same tick, consumed in more
\* than one call.
C1_Witness ==
    /\ Len(markLog) = 3
    /\ \A i \in DOMAIN markLog : markLog[i].nosince
    /\ published[1].at = published[2].at
    /\ published[2].at < published[3].at
    /\ ActOf(lastOp) = "consume" /\ Len(RetOf(lastOp)) = 1

\* C5 -- an event returned by a marking consume is processed afterwards and no
\* later consume call returns it; the row stays in the store until cleanup
\* deletes it; publish e1, e2, then consume(limit=1) returns [e1] and
\* consume(limit=10) returns [e2].
C5_ProcessedNeverReconsumed ==
    /\ \A e \in events : e.id \in MarkedIds => e.processed
    /\ \A i, j \in DOMAIN markLog : i # j => markLog[i].id # markLog[j].id
    /\ (ActOf(lastOp) = "consume" /\ ~ArgOf(lastOp)[2])
          => Range(RetOf(lastOp)) \cap MarkedIds = {}
    /\ \A i \in DOMAIN published :
          published[i].id \in EventIds \cup cleanedUp
    /\ (/\ ActOf(lastOp) = "consume" /\ ArgOf(lastOp) = <<1, TRUE, {}>>
        /\ Len(published) = 2 /\ cleanedUp = {}
        /\ Len(markLog) = Len(RetOf(lastOp)))
          => RetOf(lastOp) = <<published[1].id>>
    /\ (/\ ActOf(lastOp) = "consume" /\ ArgOf(lastOp) = <<10, TRUE, {}>>
        /\ Len(published) = 2 /\ cleanedUp = {}
        /\ Len(markLog) = Len(RetOf(lastOp)) + 1
        /\ markLog[1].id = published[1].id)
          => RetOf(lastOp) = <<published[2].id>>

\* The scenario's second call has just returned, both rows still stored.
C5_Witness ==
    /\ ActOf(lastOp) = "consume" /\ ArgOf(lastOp) = <<10, TRUE, {}>>
    /\ Len(published) = 2
    /\ markLog = <<[id |-> published[1].id, nosince |-> TRUE],
                   [id |-> published[2].id, nosince |-> TRUE]>>
    /\ RetOf(lastOp) = <<published[2].id>>
    /\ EventIds = {published[1].id, published[2].id}
    /\ \A e \in events : e.processed

\* C6 -- at-least-once delivery by the Event Poller: an event that was
\* published is handed to the callback, unless cleanup deleted it.  An event
\* the store holds as processed is never returned by consume again, so at
\* every moment each published event must be still unprocessed, waiting in
\* the current cycle's dispatch, already handed over, or deleted by cleanup.
C6_AtLeastOnce ==
    \A i \in DOMAIN published :
        LET id == published[i].id
        IN \/ id \in handled
           \/ id \in pollBatch
           \/ id \in cleanedUp
           \/ \E e \in events : e.id = id /\ ~e.processed

\* C9 -- EventBus.cleanup(older_than=H) deletes exactly the rows created more
\* than H hours before now, processed or not, and leaves the others as they
\* were (as published, processed exactly when a marking consume returned them).
C9_EventCleanupRetention ==
    ActOf(lastOp) = "cleanup" =>
        LET before == PreOf(lastOp)
        IN /\ events = {e \in before :
                           ~(now - PubAt(e.id) > ArgOf(lastOp) * TicksPerHour)}
           /\ RetOf(lastOp) = {e.id : e \in before \ events}
           /\ \A e \in events :
                 e = [id |-> e.id,
                      event_type |-> published[PubPos(e.id)].event_type,
                      data |-> JsonDumps(published[PubPos(e.id)].data),
                      created_at |-> isoformat(PubAt(e.id)),
                      processed |-> e.id \in MarkedIds]

\* A cleanup that deleted an unprocessed row and kept a newer one.
C9_Witness ==
    /\ ActOf(lastOp) = "cleanup"
    /\ \E id \in RetOf(lastOp) : id \notin MarkedIds
    /\ \E e \in events : \E id \in RetOf(lastOp) : PubAt(id) < PubAt(e.id)
    /\ \E e \in events : e.processed

JobIds == {j.id : j \in jobs}
EnqPos(id) == CHOOSE i \in DOMAIN enqueued : enqueued[i].id = id
EnqAt(id) == enqueued[EnqPos(id)].at
EnqType(id) == enqueued[EnqPos(id)].job_type
\* The time a stored ISO-8601 text stands for.
StampTime(text) == CHOOSE t \in 0..MaxTime : isoformat(t) = text

\* C2 -- Job FIFO: jobs of one type are claimed in the order they were
\* enqueued, and every dequeue call returns the oldest pending job that
\* matches its filter (none only when no pending job matches).
C2_JobFifo ==
    /\ \A i, j \in DOMAIN claimLog :
          (i < j /\ EnqType(claimLog[i]) = EnqType(claimLog[j]))
              => EnqPos(claimLog[i]) < EnqPos(claimLog[j])
    /\ ActOf(lastOp) = "dequeue" =>
          LET match == {j \in jobs : /\ j.status = "pending"
                                     /\ \A t \in ArgOf(lastOp) : j.job_type = t}
          IN /\ RetOf(lastOp) = {} => match = {}
             /\ \A id \in RetOf(lastOp) :
                   /\ \A t \in ArgOf(lastOp) : EnqType(id) = t
                   /\ \A j \in match : EnqPos(id) < EnqPos(j.id)
                   /\ \E j \in jobs : j.id = id /\ j.status = "processing"

\* Two jobs of one type enqueued in different ticks, claimed by two calls,
\* the second one filtered by type.
C2_Witness ==
    /\ Len(claimLog) = 2
    /\ EnqType(claimLog[1]) = EnqType(claimLog[2])
    /\ EnqAt(claimLog[1]) < EnqAt(claimLog[2])
    /\ ActOf(lastOp) = "dequeue" /\ ArgOf(lastOp) # {} /\ RetOf(lastOp) = {claimLog[2]}

\* C3 -- no double claim under one caller: dequeue never returns a job that an
\* earlier dequeue returned, whatever happened to the job in between.
C3_NoDoubleClaim ==
    \A i, j \in DOMAIN claimLog : i # j => claimLog[i] # claimLog[j]

\* A dequeue issued after the first claimed job was completed or failed
\* returned the other job.
C3_Witness ==
    /\ Len(claimLog) = 2
    /\ ActOf(lastOp) = "dequeue" /\ RetOf(lastOp) = {claimLog[2]}
    /\ \E j \in jobs : j.id = claimLog[1] /\ j.status \in Terminal

\* C4 -- terminal transitions are final: complete_job or fail_job on a job
\* that is completed or failed leaves its status, completed_at and
\* error_message as they were.
C4_TerminalFinal ==
    [][\A j \in jobs :
          (j.status \in Terminal /\ ActOf(lastOp') \in {"complete_job", "fail_job"})
              => \E k \in jobs' : /\ k.id = j.id
                                  /\ k.status = j.status
                                  /\ k.completed_at = j.completed_at
                                  /\ k.error_message = j.error_message]_vars

\* C10 -- JobQueue.cleanup deletes only completed or failed jobs that are
\* older than the window; pending and processing jobs and newer terminal
\* jobs stay as they are.
C10_JobCleanupTerminalOnly ==
    [][ActOf(lastOp') = "job_cleanup" =>
          LET window == ArgOf(lastOp') * TicksPerHour
          IN /\ jobs' \subseteq jobs
             /\ \A j \in jobs \ jobs' :
                   /\ j.status \in Terminal
                   /\ now - StampTime(j.completed_at) > window
                   /\ now - EnqAt(j.id) > window
             /\ \A j \in jobs :
                   j.status \in {"pending", "processing"} => j \in jobs'
             /\ \A j \in jobs :
                   (j.status \in Terminal
                    /\ now - StampTime(j.completed_at) <= window) => j \in jobs'
      ]_vars

\* A cleanup deleted a terminal job and left a job that is older than the
\* window but not terminal.
C10_Witness ==
    /\ ActOf(lastOp) = "job_cleanup" /\ RetOf(lastOp) = 1
    /\ \E j \in jobs : /\ j.status \in {"pending", "processing"}
                       /\ now - EnqAt(j.id) > ArgOf(lastOp) * TicksPerHour

\* C11 -- complete_job(job_id, result) sets the job's status to completed and
\* stamps completed_at with the current time; when a result is supplied the
\* stored payload of the job is that result afterwards.
C11_CompleteJobResult ==
    [][ActOf(lastOp') = "complete_job" =>
          \A k \in jobs' :
              k.id = ArgOf(lastOp')[1] =>
                  /\ k.status = "completed"
                  /\ k.completed_at = isoformat(now)
                  /\ \A r \in ArgOf(lastOp')[2] : k.payload = r]_vars

AllowedStatusChanges ==
    {<<"pending", "processing">>, <<"processing", "completed">>,
     <<"processing", "failed">>}

\* C12 -- the job state machine is forward-only: whatever is called, a job's
\* status changes only pending -> processing, processing -> completed or
\* processing -> failed.
C12_ForwardOnly ==
    [][\A j \in jobs, k \in jobs' :
          (j.id = k.id /\ j.status # k.status)
              => <<j.status, k.status>> \in AllowedStatusChanges]_vars

\* ------------------------------------------------------ sessions: claims
ReapFinished ==
    \/ /\ ActOf(lastOp) = "cleanup_inactive_sessions"
       /\ RetOf(lastOp)[1] \in {"raised", "returned"}
    \/ /\ ActOf(lastOp) = "resume"
       /\ ArgOf(lastOp)[1] = "cleanup_inactive_sessions"
       /\ RetOf(lastOp)[1] = "returned"

\* The reaper has just taken a session's lock and begun to stop the session.
ReapStopping ==
    /\ \/ ActOf(lastOp) = "cleanup_inactive_sessions"
       \/ /\ ActOf(lastOp) = "resume"
          /\ ArgOf(lastOp)[1] = "cleanup_inactive_sessions"
    /\ RetOf(lastOp)[1] = "suspended"
    /\ sm.tasks[PreOf(lastOp)[3]].pc = "stopping_handle"

CreateReturnedExisting ==
    /\ ActOf(lastOp) = "create_agent_session"
    /\ RetOf(lastOp)[1] = "ok"

\* C7: create_agent_session for a user who already has a session in status
\* active returns that session's id, starts no second execution handle and
\* leaves the live session set (and every session in it) as it was.
C7_IdempotentCreate ==
    [][\A u \in Users :
          (/\ ActOf(lastOp') = "create_agent_session"
           /\ ArgOf(lastOp') = u
           /\ \E sid \in Live(sm) : /\ sm.sessObj[sid].user_id = u
                                    /\ sm.sessObj[sid].status = "active")
          => /\ RetOf(lastOp')[1] = "ok"
             /\ RetOf(lastOp')[2] \in Live(sm)
             /\ sm.sessObj[RetOf(lastOp')[2]].user_id = u
             /\ sm.sessObj[RetOf(lastOp')[2]].status = "active"
             /\ sm'.active = sm.active
             /\ sm'.sessObj = sm.sessObj
             /\ sm'.executors = sm.executors
             /\ sm'.started = sm.started
             /\ sm'.tasks = sm.tasks]_vars

\* A create call has returned the id of the user's existing active session
\* while another session (of the other user) is live as well.
C7_Witness ==
    /\ CreateReturnedExisting
    /\ RetOf(lastOp)[2] \in Live(sm)
    /\ sm.sessObj[RetOf(lastOp)[2]].status = "active"
    /\ Len(sm.active) = 2

\* C8: when cleanup_inactive_sessions(idle_timeout) has finished, no session
\* whose last activity was older than idle_timeout at the scan is live any
\* more, whichever way the session was created or used; and the reaper begins
\* to stop only sessions whose last activity is that old, also when the
\* activity happened while it waited for the session lock.
C8_IdleReaping ==
    /\ ReapFinished =>
          \A sid \in Live(sm) :
              ~(PreOf(lastOp)[1] - sm.sessObj[sid].last_activity.t > PreOf(lastOp)[2])
    /\ ReapStopping =>
          LET t == PreOf(lastOp)[3]
          IN sm.tasks[t].scanAt - sm.sessObj[sm.tasks[t].sid].last_activity.t
                > sm.tasks[t].timeout

\* C13 -- execute_with_agent and send_message_to_agent on a session id that
\* is not live (stopped and removed, or never created) return the "not
\* found" failure, start no collaborator call and change nothing in the
\* manager.
C13_NotFound ==
    [][(ActOf(lastOp') \in Commands /\ ArgOf(lastOp') \notin Range(sm.active))
          => /\ RetOf(lastOp') = <<"not_found">>
             /\ sm' = sm]_vars

\* A command on a session that was stopped and removed has been answered
\* with "not found".
C13_Witness ==
    /\ ActOf(lastOp) \in Commands
    /\ RetOf(lastOp) = <<"not_found">>
    /\ ArgOf(lastOp) <= Len(sm.sessObj)
    /\ sm.sessObj[ArgOf(lastOp)].status = "stopped"
    /\ sm.stopCalls # {}

SessionIds == 1..Len(sm.sessObj)
CallingOn(S, sid) ==
    {t \in Tasks : S.tasks[t].pc = "calling" /\ S.tasks[t].sid = sid}

\* C14 -- when the collaborator raises during execute_with_agent or
\* send_message_to_agent on an active session, the call returns a failure and
\* the session's status becomes error; from then on the status never is
\* active again and every execute / send on the session is rejected (not
\* active, or not found once it was stopped) without a collaborator call.
C14_ErrorStatus ==
    [][\A sid \in SessionIds :
          /\ (/\ ActOf(lastOp') = "resume"
              /\ RetOf(lastOp') = <<"raised">>
              /\ ArgOf(lastOp')[1] \in Commands
              /\ sm.tasks[ArgOf(lastOp')[2]].sid = sid)
             => /\ sm'.sessObj[sid].status = "error"
                /\ Finished(sm', ArgOf(lastOp')[2])
          /\ sm.sessObj[sid].status = "error"
             => /\ sm'.sessObj[sid].status \in {"error", "stopping", "stopped"}
                /\ CallingOn(sm', sid) = {}
                /\ (ActOf(lastOp') \in Commands /\ ArgOf(lastOp') = sid)
                      => RetOf(lastOp')[1] \in {"not_active", "not_found", "suspended"}
                /\ (/\ ActOf(lastOp') = "resume"
                    /\ ArgOf(lastOp')[1] \in Commands
                    /\ sm.tasks[ArgOf(lastOp')[2]].sid = sid)
                      => RetOf(lastOp') = <<"not_active">>]_vars

\* A command on a live session in status error has been rejected as not
\* active.
C14_Witness ==
    /\ ActOf(lastOp) \in Commands
    /\ RetOf(lastOp) = <<"not_active">>
    /\ ArgOf(lastOp) \in Live(sm)
    /\ sm.sessObj[ArgOf(lastOp)].status = "error"

\* C15 -- stop_agent_session on a live session sets the status to stopping
\* and passes the handle to the collaborator's stop_session; when the call
\* returns, whatever the collaborator's stop did (true, false, raised), the
\* session is not live and its executor, lock and history are gone.
C15_StopRemoves ==
    [][(ActOf(lastOp') = "resume" /\ ArgOf(lastOp')[1] = "stop_agent_session")
          => LET t == ArgOf(lastOp')[2]
                 sid == sm.tasks[t].sid
             IN /\ sm'.tasks[t].pc = "stopping_handle"
                   => /\ sm'.sessObj[sid].status = "stopping"
                      /\ sm.sessObj[sid].handle \in sm'.stopCalls
                /\ Finished(sm', t)
                   => /\ sid \notin Live(sm')
                      /\ sid \notin sm'.executors
                      /\ sid \notin sm'.locks
                      /\ sid \notin sm'.histories]_vars

\* C16 -- when a step of create_agent_session fails, the call raises that
\* step's own failure (the ValueError of the configuration, the exception of
\* start_agent_session) and leaves no session, executor, lock or history of
\* the partly created session; a failure before registration leaves the
\* manager as it was.
C16_CreateFailure ==
    [][/\ (ActOf(lastOp') = "create_agent_session" /\ RetOf(lastOp')[1] = "raised")
          => /\ RetOf(lastOp')[2] = "ValueError"
             /\ sm' = sm
       /\ (/\ ActOf(lastOp') = "resume"
           /\ ArgOf(lastOp')[1] = "create_agent_session"
           /\ RetOf(lastOp')[1] = "raised")
          => LET sid == sm.tasks[ArgOf(lastOp')[2]].sid
             IN /\ RetOf(lastOp')[2] = "start_agent_session"
                /\ sid \notin Live(sm')
                /\ sid \notin sm'.executors
                /\ sid \notin sm'.locks
                /\ sid \notin sm'.histories]_vars

InCall(S, t) == S.tasks[t].pc \in {"calling", "stopping_handle"}
CallsOn(S, sid) == {t \in Tasks : InCall(S, t) /\ S.tasks[t].sid = sid}

\* C17 -- per-session mutual exclusion: at most one collaborator call
\* (execute_command, send_message, stop_session) is in progress for a
\* session at any time; and a call waits only for a call on the same
\* session: a waiting call's lock is held by, or already handed to, a call
\* on that session.
C17_MutualExclusion ==
    /\ \A sid \in SessionIds : Cardinality(CallsOn(sm, sid)) <= 1
    /\ \A t \in Tasks :
          sm.tasks[t].pc = "waiting"
             => /\ sm.holder[sm.tasks[t].sid] # 0
                /\ sm.tasks[sm.holder[sm.tasks[t].sid]].sid = sm.tasks[t].sid

\* One call is at the collaborator for session 1 while a second call on
\* session 1 waits, and a call on session 2 is at the collaborator too.
C17_Witness ==
    /\ Len(sm.sessObj) = 2
    /\ \E t, u, v \in Tasks :
          /\ InCall(sm, t) /\ sm.tasks[t].sid = 1
          /\ sm.tasks[u].pc = "waiting" /\ sm.tasks[u].sid = 1
          /\ InCall(sm, v) /\ sm.tasks[v].sid = 2

\* C18 -- calls on one session reach the collaborator in the order they were
\* issued: the call that is at the collaborator is the earliest issued call
\* on the session that has not returned yet.
C18_SessionFifo ==
    \A t \in Tasks :
        InCall(sm, t) => Head(sm.issued[sm.tasks[t].sid]) = t

\* The second of three calls issued on a session is at the collaborator
\* while the third still waits: the first has returned.
C18_Witness ==
    \E t, u \in Tasks :
        /\ lastOp = Op("resume", <<sm.tasks[t].kind, t>>, <<"suspended">>, <<>>)
        /\ sm.tasks[t].pc = "calling"
        /\ sm.tasks[u].pc = "waiting"
        /\ sm.tasks[u].sid = sm.tasks[t].sid
        /\ sm.issued[sm.tasks[t].sid] = <<t, u>>

\* ------------------------------------------------------- worker: claims
\* What the worker has logged for a job, in order.
LogOf(W, id) == SelectSeq(W.log, LAMBDA e : e[2] = id)
Entries(W, id, what) == SelectSeq(LogOf(W, id), LAMBDA e : e[1] = what)
OutcomeCalls(W, id) ==
    SelectSeq(LogOf(W, id), LAMBDA e : e[1] \in {"complete_job", "fail_job"})
StatusOf(rows, id) == (CHOOSE j \in rows : j.id = id).status
MessageOf(rows, id) == (CHOOSE j \in rows : j.id = id).error_message

\* _process_job ends in this step.
EndsProcessing ==
    /\ ActOf(lastOp') \in {"worker.complete_job", "worker.fail_job"}
    /\ wk.job # 0 /\ wk'.job = 0

\* The worker has just dequeued a job whose type has no handler.
DequeuedUnhandled ==
    /\ ActOf(lastOp') = "worker.dequeue"
    /\ wk'.job # 0
    /\ wk'.job_type \notin wk'.handlers

\* C19 as stated -- a dequeued job whose type has no handler: fail_job is
\* called at once with a text naming the type, no handler runs, and when the
\* worker is done with the job its status is failed.
C19_NoHandlerFails ==
    [][/\ DequeuedUnhandled
          => /\ wk'.pc = "fail_job"
             /\ wk'.msg = NoHandlerText(wk'.job_type)
             /\ Entries(wk', wk'.job, "handler") = <<>>
       /\ (EndsProcessing /\ wk.job_type \notin wk.handlers)
          => /\ Entries(wk', wk.job, "handler") = <<>>
             /\ StatusOf(jobs', wk.job) = "failed"]_vars

\* C19 amended -- a dequeued job whose type has no handler: fail_job is
\* called at once with a text naming the type and no handler runs. If that
\* call succeeds the job is failed with that text and nothing more is called.
\* If it raises, fail_job is called once more, with the error text; the job
\* is failed if this call succeeds and is still processing if it raises too.
\* The job is never pending again.
C19_NoHandlerFailsIfStored ==
    [][/\ DequeuedUnhandled
          => /\ wk'.pc = "fail_job"
             /\ wk'.msg = NoHandlerText(wk'.job_type)
             /\ Entries(wk', wk'.job, "handler") = <<>>
       /\ (EndsProcessing /\ wk.job_type \notin wk.handlers)
          => LET calls == OutcomeCalls(wk', wk.job)
                 first == <<"fail_job", wk.job, TRUE, NoHandlerText(wk.job_type)>>
                 failed1 == <<"fail_job", wk.job, FALSE, NoHandlerText(wk.job_type)>>
                 again(ok) == <<"fail_job", wk.job, ok, JobErrorText(StoreErrorText)>>
             IN /\ Entries(wk', wk.job, "handler") = <<>>
                /\ calls \in {<<first>>, <<failed1, again(TRUE)>>,
                              <<failed1, again(FALSE)>>}
                /\ calls = <<first>>
                      => /\ StatusOf(jobs', wk.job) = "failed"
                         /\ MessageOf(jobs', wk.job) = NoHandlerText(wk.job_type)
                /\ calls = <<failed1, again(TRUE)>>
                      => /\ StatusOf(jobs', wk.job) = "failed"
                         /\ MessageOf(jobs', wk.job) = JobErrorText(StoreErrorText)
                /\ calls = <<failed1, again(FALSE)>>
                      => StatusOf(jobs', wk.job) = "processing"
       /\ \A j \in jobs, k \in jobs' :
             (j.id = k.id /\ k.status = "pending") => j.status = "pending"]_vars

\* The worker has failed a job without a handler at the second attempt, the
\* first fail_job having raised.
C19_Witness ==
    /\ ActOf(lastOp) = "worker.fail_job" /\ RetOf(lastOp) = TRUE
    /\ \E id \in JobIds :
          /\ ArgOf(lastOp) = id
          /\ EnqType(id) = "other"
          /\ Len(OutcomeCalls(wk, id)) = 2
          /\ StatusOf(jobs, id) = "failed"

\* _process_job ends in this step for a job whose type has a handler.
EndsHandled == EndsProcessing /\ wk.job_type \in wk.handlers

\* C20 as stated -- a dequeued job whose type has a handler: the handler is
\* invoked exactly once and exactly one outcome is recorded: when the
\* handler returned, complete_job with the returned value is the one call
\* and the job is completed; when the handler raised, fail_job with the
\* error text is the one call and the job is failed.
C20_OneOutcome ==
    [][EndsHandled =>
          LET id == wk.job
              calls == OutcomeCalls(wk', id)
              ret == Entries(wk', id, "returned")
              exc == Entries(wk', id, "raised")
          IN /\ Len(Entries(wk', id, "handler")) = 1
             /\ Len(calls) = 1
             /\ ret # <<>>
                   => /\ calls = <<<<"complete_job", id, TRUE, ret[1][4]>>>>
                      /\ StatusOf(jobs', id) = "completed"
             /\ exc # <<>>
                   => /\ calls = <<<<"fail_job", id, TRUE, JobErrorText(exc[1][4])>>>>
                      /\ StatusOf(jobs', id) = "failed"]_vars

\* C20 amended -- a dequeued job whose type has a handler: the handler is
\* invoked exactly once. When it returned, complete_job is called once with
\* the returned value; if that call succeeds it is the only call and the job
\* is completed. When the handler raised, or complete_job raised, fail_job
\* is called once, with the text of that error; if it succeeds the job is
\* failed, if it raises the job is still processing. At most one of the
\* calls succeeds.
C20_OneOutcomeIfStored ==
    [][EndsHandled =>
          LET id == wk.job
              calls == OutcomeCalls(wk', id)
              ret == Entries(wk', id, "returned")
              exc == Entries(wk', id, "raised")
              done(v) == <<"complete_job", id, TRUE, v>>
              undone(v) == <<"complete_job", id, FALSE, v>>
              fail(ok, e) == <<"fail_job", id, ok, JobErrorText(e)>>
          IN /\ Len(Entries(wk', id, "handler")) = 1
             /\ Len(ret) + Len(exc) = 1
             /\ ret # <<>>
                   => /\ \/ calls = <<done(ret[1][4])>>
                         \/ \E ok \in BOOLEAN :
                               calls = <<undone(ret[1][4]), fail(ok, StoreErrorText)>>
                      /\ calls = <<done(ret[1][4])>>
                            => StatusOf(jobs', id) = "completed"
             /\ exc # <<>>
                   => \E ok \in BOOLEAN : calls = <<fail(ok, exc[1][4])>>
             /\ \A i \in DOMAIN calls :
                   (calls[i][1] = "fail_job" /\ calls[i][3])
                      => /\ StatusOf(jobs', id) = "failed"
                         /\ MessageOf(jobs', id) = calls[i][4]
             /\ (\A i \in DOMAIN calls : ~calls[i][3])
                   => StatusOf(jobs', id) = "processing"
             /\ Cardinality({i \in DOMAIN calls : calls[i][3]}) <= 1]_vars

\* The worker has recorded a handled job as failed after the handler had
\* returned and complete_job had raised, and has completed another job.
C20_Witness ==
    /\ ActOf(lastOp) = "worker.fail_job" /\ RetOf(lastOp) = TRUE
    /\ \E id \in JobIds :
          /\ ArgOf(lastOp) = id
          /\ Entries(wk, id, "returned") # <<>>
          /\ Len(OutcomeCalls(wk, id)) = 2
          /\ StatusOf(jobs, id) = "failed"
    /\ \E j \in jobs : j.status = "completed"

\* C26 -- publish(type, payload) appends exactly one record, with the
\* type, processed = false and a new id, and leaves every existing record as
\* it was; every event a consume call returns carries the type and a payload
\* equal to the payload of the publish call that made it.
C26_PublishRoundTrip ==
    [][/\ ActOf(lastOp') = "publish"
          => \E r \in events' :
                /\ r \notin events /\ events' = events \cup {r}
                /\ \A e \in events : e.id # r.id
                /\ r.event_type = ArgOf(lastOp')[1]
                /\ ~r.processed
       /\ ActOf(lastOp') = "consume"
          => \A i \in DOMAIN PreOf(lastOp') :
                LET e == PreOf(lastOp')[i]
                    call == published[PubPos(e.id)]
                IN /\ e.event_type = call.event_type
                   /\ e.data = call.data]_vars

\* A consume call has returned two events of different types, one of them
\* with a nested payload, published while other records were in the store.
C26_Witness ==
    /\ ActOf(lastOp) = "consume"
    /\ \E i, k \in DOMAIN PreOf(lastOp) :
          /\ PreOf(lastOp)[i].event_type # PreOf(lastOp)[k].event_type
          /\ PreOf(lastOp)[k].data = Messages_Nested
    /\ \E e \in events : e.processed

\* -------------------------------------------------- poller cycle: claims
\* C23 -- in a poller cycle every event of the consumed batch is dispatched
\* to the callback before the cycle goes on; a callback that raises for one
\* event ends that dispatch only: the dispatches still to run and those
\* running are left as they are, and the poll loop stays where it is and
\* exists as long as the poller is not stopped.
C23_RaiseIsolated ==
    /\ [](pollRunning => pollPc # "none")
    /\ [][/\ ActOf(lastOp') \in {"poller.gathered", "poller.timeout"}
             => pd.batch \subseteq handled'
          /\ ActOf(lastOp') = "poller.callback_raised"
             => /\ pollRunning' /\ pollPc' = pollPc
                /\ pollBatch' = pollBatch
                /\ pd'.running = pd.running \ {ArgOf(lastOp')}
                /\ pd'.cancelled = pd.cancelled]_vars

\* The loop is about to consume again after a cycle in which the callback
\* raised for one event of the batch and returned for another one.
C23_Witness ==
    /\ ActOf(lastOp) = "poller.sleep"
    /\ pollPc = "consume"
    /\ \E a \in pd.batch \cap pd.raised : \E b \in pd.batch \cap pd.done : a # b

\* C24 -- when the per-cycle timeout expires while dispatches are still
\* running, the poller moves on and the running dispatches are abandoned,
\* not cancelled: each is left running.
C24_TimeoutAbandons ==
    [][ActOf(lastOp') = "poller.timeout"
          => /\ pollPc' = "cleanup"
             /\ pd'.running = pd.running
             /\ pd'.cancelled = pd.cancelled]_vars

\* The loop task is past a dequeue and not inside a handler.
BetweenDequeues ==
    wk.running /\ wk.pc \in {"fail_job", "complete_job", "cleanup_check",
                             "sleep", "error_sleep"}

\* C22 -- worker loop liveness: while the worker is not stopped its loop
\* task exists, and from wherever a raised handler or a store error of
\* dequeue, complete_job, fail_job or cleanup has left it, the loop comes to
\* its next dequeue call (unless the worker is stopped first).
C22_LoopGoesOn ==
    /\ [](wk.running => wk.pc # "none")
    /\ BetweenDequeues ~> (wk.pc = "dequeue" \/ ~wk.running)

\* The loop is at its dequeue call again after the except block's sleep that
\* followed a store error in the except block's fail_job.
C22_Witness ==
    /\ ActOf(lastOp) = "worker.error_sleep"
    /\ wk.running /\ wk.pc = "dequeue"
    /\ \E i \in DOMAIN wk.log :
          /\ wk.log[i][1] = "fail_job" /\ ~wk.log[i][3]
          /\ \E k \in DOMAIN wk.log : wk.log[k][1] = "raised" /\ k < i

\* ----------------------------------------------------- viewer: claims
\* C27 -- on the web-viewer side, the handler enqueues an avatar_generation
\* job in the Job Queue for every user_registered event it consumes, and
\* forwards every event of another type to the viewers as a notification.
C27_RegisteredEnqueues ==
    [][ActOf(lastOp') = "viewer.handle_event"
          => IF RetOf(lastOp') = "user_registered"
             THEN \E j \in jobs' :
                     /\ j \notin jobs
                     /\ j.job_type = "avatar_generation"
                     /\ j.status = "pending"
             ELSE vw'.notified =
                     Append(vw.notified, <<RetOf(lastOp'), ArgOf(lastOp')>>)]_vars

\* ----------------------------------------------------- daemon: claims
\* C28 -- for an avatar_generation job the handler publishes avatar_updated
\* only after the avatar path was written to the profile store for that
\* job's user, the job is marked completed only after that event was
\* published, and no avatar_updated event is published for a job whose
\* generation produced no image.
C28_StoreThenPublishThenComplete ==
    /\ [](av.noimage \cap av.published = {})
    /\ [][/\ (ActOf(lastOp') = "avatar.published" /\ RetOf(lastOp'))
             => ArgOf(lastOp') \in av.stored
          /\ (ActOf(lastOp') = "worker.complete_job" /\ RetOf(lastOp'))
             => ArgOf(lastOp') \in av.published]_vars

\* C29 -- a job whose work failed ends as a failed record: an
\* avatar_generation job whose generation produced no avatar is never in
\* status completed.
C29_NoImageNeverCompleted ==
    \A j \in jobs : j.id \in av.noimage => j.status # "completed"

\* ----------------------------------------------- manager stop: claims
\* stop() returns in this step.
ManagerStopReturns ==
    /\ \/ ActOf(lastOp') = "manager_stop"
       \/ ActOf(lastOp') = "resume" /\ ArgOf(lastOp')[1] = "manager_stop"
    /\ RetOf(lastOp') = <<"returned">>

\* C30 -- SessionManager.stop() stops all live sessions and then cancels
\* the periodic cleanup task: when it returns the live set is empty and the
\* cleanup task is not running, whatever create_agent_session calls and
\* reaper runs were in progress meanwhile.
C30_StopLeavesNothing ==
    [][ManagerStopReturns
          => /\ Live(sm') = {}
             /\ sm'.cleanup_task # "running"]_vars

\* ---------------------------------------------- dequeue race: claims
\* C25 -- dequeue does not prevent double claiming: the mark-processing step
\* of a call never refuses. The call returns the job it selected and leaves
\* it in status processing, also when another call has claimed that job
\* between the two steps, so both calls return the same job.
C25_MarkNeverRefuses ==
    [][ActOf(lastOp') = "dequeue.mark"
          => LET w == ArgOf(lastOp')
             IN /\ RetOf(lastOp') = dq.calls[w]
                /\ dq'.returned = Append(dq.returned, <<w, dq.calls[w]>>)
                /\ \A j \in jobs' : j.id = dq.calls[w] => j.status = "processing"]_vars

\* Two workers' calls, their steps interleaved, have returned the same job.
C25_Witness ==
    /\ ActOf(lastOp) = "dequeue.mark"
    /\ \E i, k \in DOMAIN dq.returned :
          /\ i < k
          /\ dq.returned[i][1] # dq.returned[k][1]
          /\ dq.returned[i][2] = dq.returned[k][2]
          /\ \E j \in jobs : j.id = dq.returned[i][2] /\ j.status = "processing"

\* ------------------------------------------- worker start/stop: claims
\* C21 -- at most one job is in flight per Job Worker: at no time do two
\* loop tasks of the worker hold a job that was dequeued and whose outcome
\* is not recorded yet (so at most one handler invocation runs, and no job
\* is dequeued before the current one's outcome is recorded), whatever
\* start() and stop() calls are made on the worker.
C21_OneInFlight == Cardinality(InFlight(wl)) <= 1


\* ----------------------------------------------- session status: claims
\* The status changes of the session state machine.
StatusEdges ==
    {<<"starting", "active">>, <<"active", "stopping">>,
     <<"stopping", "stopped">>, <<"active", "error">>}

\* C31 -- Under any interleaving of create_agent_session, the two commands,
\* stop_agent_session and cleanup_inactive_sessions a session's status
\* changes only along starting->active, active->stopping, stopping->stopped
\* and active->error, and no session ever has status idle.
C31_StatusEdgesOnly ==
    [][\A sid \in DOMAIN sm.sessObj :
          /\ sm'.sessObj[sid].status # "idle"
          /\ sm'.sessObj[sid].status # sm.sessObj[sid].status
               => <<sm.sessObj[sid].status, sm'.sessObj[sid].status>> \in StatusEdges]_vars


\* A command resumed in this step returns with the given outcome.
CommandReturns(outcomes) ==
    /\ ActOf(lastOp') = "resume"
    /\ ArgOf(lastOp')[1] \in Commands
    /\ RetOf(lastOp') \in {<<o>> : o \in outcomes}

\* C32 -- execute_with_agent / send_message_to_agent advance last_activity
\* exactly when the exchange succeeds: a call that returns a failure result
\* (not found, not active, collaborator raised, collaborator returned
\* success=false) leaves last_activity as it was.
C32_ActivityOnSuccessOnly ==
    [][/\ ActOf(lastOp') \in Commands => sm'.sessObj = sm.sessObj
       /\ CommandReturns({"not_active", "raised", "failure"})
            => LET sid == sm.tasks[ArgOf(lastOp')[2]].sid
               IN sm'.sessObj[sid].last_activity = sm.sessObj[sid].last_activity
       /\ CommandReturns({"success"})
            => LET sid == sm.tasks[ArgOf(lastOp')[2]].sid
               IN sm'.sessObj[sid].last_activity = [kind |-> "float", t |-> now]]_vars


\* ------------------------------------------ daemon supervision: claims
\* C33 -- While the daemon is running, a worker whose running flag is down
\* is eventually started again by the supervision loop (or the daemon is
\* stopped first); once the daemon's stop() has begun, no step of the
\* supervision loop starts the worker.
C33_SupervisedRestart ==
    /\ (wl.daemon.running /\ ~wl.running) ~> (wl.running \/ ~wl.daemon.running)
    /\ [][~wl.daemon.running /\ ActOf(lastOp') = "daemon.main_loop_round"
             => /\ wl'.running = wl.running
                /\ wl'.loops = wl.loops]_vars

\* The main loop has found the worker's flag down and has started it again.
C33_Witness ==
    /\ ActOf(lastOp) = "daemon.main_loop_round"
    /\ RetOf(lastOp) = FALSE
    /\ wl.running /\ wl.daemon.running
    /\ Len(wl.loops) >= 2


\* --------------------------------------------- manager bookkeeping: claims
\* C34 -- At every suspension point active_sessions, session_executors,
\* session_locks and conversation_histories have the same keys: a session is
\* live exactly when it has an executor, a lock and a history, and a removal
\* discards all four together.
C34_SameKeys ==
    /\ sm.executors = Live(sm)
    /\ sm.locks = Live(sm)
    /\ sm.histories = Live(sm)

\* One session has been removed while another one is live.
C34_Witness ==
    /\ Live(sm) # {}
    /\ \E sid \in DOMAIN sm.sessObj :
          sid \notin Live(sm) /\ sm.sessObj[sid].status = "stopped"


\* The live sessions of a user that are in status active.
ActiveOf(S, user_id) ==
    {sid \in Live(S) : /\ S.sessObj[sid].user_id = user_id
                       /\ S.sessObj[sid].status = "active"}

\* C35 -- In every reachable state the live set holds at most one session
\* in status active for a user, also when two create_agent_session calls
\* for the user interleave at the start of the handle.
C35_OneActivePerUser ==
    \A u \in Users : Cardinality(ActiveOf(sm, u)) <= 1


\* ------------------------------------------------- handles: claims
\* The handles referenced by the sessions of the live set.
LiveHandles(S) == {S.sessObj[sid].handle : sid \in Live(S)}

\* C36 -- Every handle the collaborator has started is referenced by a
\* session of the live set or has been passed to the collaborator's stop,
\* also when a session is removed while it is still in status starting.
C36_NoLeakedHandle ==
    \A h \in sm.started : h \in LiveHandles(sm) \/ h \in sm.stopCalls


\* ------------------------------------------ conversation history: claims
IsPrefix(a, b) == Len(a) <= Len(b) /\ SubSeq(b, 1, Len(a)) = a

\* What follows message i of a history is right for the way its exchange
\* ended.
ExchangeInOrder(h, i) ==
    LET n == h[i][2]
        how == sm.exchanges[n]
    IN IF h[i][1] = "assistant"
       THEN i > 1 /\ h[i - 1] = <<"user", n>>
       ELSE IF how = "success"
       THEN i < Len(h) /\ h[i + 1] = <<"assistant", n>>
       ELSE IF how \in {"failure", "raised"}
       THEN i = Len(h) \/ h[i + 1][1] = "user"
       ELSE how = "sent" /\ i = Len(h)

\* C37 -- With concurrent send_message_to_agent calls on a session the
\* history is append-only, and each user message is directly followed by
\* the assistant reply to that message, or by no reply when the exchange
\* failed; no other call's user message comes between a message and its
\* reply.
C37_HistoryNotInterleaved ==
    /\ [](\A sid \in 1..MaxSessions : \A i \in DOMAIN sm.hist[sid] :
             ExchangeInOrder(sm.hist[sid], i))
    /\ [][\A sid \in 1..MaxSessions : IsPrefix(sm.hist[sid], sm'.hist[sid])]_vars

\* The first exchange on session 1 has succeeded, the second call is at the
\* collaborator with its user message in the history, and a third call
\* waits for the lock.
C37_Witness ==
    /\ sm.hist[1] = <<<<"user", 1>>, <<"assistant", 1>>, <<"user", 2>>>>
    /\ \E t, u \in LockTasks :
          /\ sm.tasks[t].pc = "calling" /\ sm.tasks[t].msg = 2
          /\ sm.tasks[u].pc = "waiting" /\ sm.tasks[u].msg = 3


\* ---------------------------------------------- consumer race: claims
\* C38 -- consume does not prevent double delivery: its select and its
\* update are separate steps, and the update step returns every event the
\* call selected and marks it processed, also when another consumer's call
\* has returned and marked the event between the two steps, so both calls
\* return the same event.
C38_MarkStepReturnsSelected ==
    [][ActOf(lastOp') = "consume.mark"
          => LET c == ArgOf(lastOp')
             IN /\ RetOf(lastOp') = cq.calls[c]
                /\ cq'.delivered = Append(cq.delivered, <<c, cq.calls[c]>>)
                /\ \A e \in events' : e.id \in Range(cq.calls[c]) => e.processed]_vars

\* Two consumers' calls, their steps interleaved, have returned the same
\* event.
C38_Witness ==
    /\ ActOf(lastOp) = "consume.mark"
    /\ \E i, k \in DOMAIN cq.delivered :
          /\ i < k
          /\ cq.delivered[i][1] # cq.delivered[k][1]
          /\ Range(cq.delivered[i][2]) \cap Range(cq.delivered[k][2]) # {}


\* ------------------------------------------- claimed jobs: claims
\* Worker w holds job id: its dequeue returned it and _process_job has not
\* finished.
PeerHeld(w, id) ==
    dq.job[w] = id /\ dq.pc[w] \in {"handler", "complete_job", "fail_job"}
Ended(id) == \E j \in jobs : j.id = id /\ j.status \in Terminal
Processing(id) == \E j \in jobs : j.id = id /\ j.status = "processing"
\* The dequeue calls that returned job id.
Claims(id) == {i \in DOMAIN dq.returned : dq.returned[i][2] = id}

====
